---- MODULE Spec2Model ----
(***************************************************************************)
(* A model of RamzLib's Observable / Subscription engine (the newest      *)
(* Observable source, 474 lines) and of the pull adapter                   *)
(* ObservableAsyncIterator (src/reactive/iterator.ts).                     *)
(*                                                                         *)
(* An Observable is its private field _callbacks: either undefined (the    *)
(* Observable has terminated) or an array whose entries are CallbackItems  *)
(* {listener, resolve, reject} or undefined (a removed slot).  The         *)
(* closures trigger/done/fail built by the constructor are the only        *)
(* writers.  Promises are modelled with JavaScript's settle-once rule, and *)
(* the number of times a promise's resolve/reject functions are called is  *)
(* counted next to it.  Promise reactions run later, as microtasks.        *)
(***************************************************************************)
EXTENDS Integers, Sequences, FiniteSets, TLC

\* ------------------------------------------------------------------ bounds
MaxObs == 2          \* Observables ever constructed
MaxConsumers == 2    \* forEach / then registrations ever made
MaxTriggers == 2     \* trigger() calls that reach an Active Observable
MaxLate == 1         \* trigger/done/fail calls made after termination
MaxVal == 1          \* the element type is 0..MaxVal (0 is falsy)
MaxPulls == 3        \* next() calls on the pull adapter
MaxEscaped == 2      \* calls that end by throwing to their caller

Values == 0..MaxVal
Errors == {"e1", "e2"}              \* what a producer passes to fail(err)
ActionRets == {"r1"}                \* what a then(action) callback returns
NoThrow == 0 - 1                    \* a listener that never throws: no stream carries it
ThrowOn == {NoThrow, MaxVal}        \* a listener throws on no value, or on one
Thrown == "local"                   \* what a throwing listener throws

VARIABLES
    callbacks,   \* callbacks[o]: the field _callbacks of Observable o
    origin,      \* origin[o]: how Observable o was constructed, with what the
                 \* closures of its executor hold (a counter, a promise)
    consumers,   \* one record per forEach/then call: listener, promise, log
    iter,        \* the pull adapter's fields demanded, queued, done
    pulls,       \* one record per next() call: the promise it returned
    microtasks,  \* promise reactions waiting to run, oldest first
    outcome,     \* history: which closure discarded the registry of o
    trace,       \* history: the values trigger() delivered while o was Active
    late,        \* history: the trigger/done/fail calls made after termination
    element,     \* the callbacks attached to the HTMLElement of fromListener
    escaped,     \* history: the calls that ended by throwing to their caller
    timers       \* the setTimeout callbacks armed, and whether each has run

vars == <<callbacks, origin, consumers, iter, pulls, microtasks, outcome,
          trace, late, element, escaped, timers>>

\* ------------------------------------------------------- type CallbackItem
\* `_callbacks?: (CallbackItem<T> | undefined)[] = []`
Undefined == [defined |-> FALSE, items |-> <<>>]
EmptyRegistry == [defined |-> TRUE, items |-> <<>>]
NoSlot == [kind |-> "undefined", c |-> 0, d |-> 0, src |-> 0, idx |-> 0]

\* A CallbackItem is told apart by the closures it holds:
\*   forEach:   {listener: each, resolve, reject}        of promise c
\*   then:      {listener: no-op, resolve: () => resolve(action()), reject}
\*   subscribe: {listener: preTrigger, resolve: unsubscribeDone,
\*               reject: unsubscribeFail}                of derived stream d
\* src and idx are `this` and `index` as the subscribe closures capture them.
CallbackItem(kind, c, d, src, idx) ==
    [kind |-> kind, c |-> c, d |-> d, src |-> src, idx |-> idx]

\* isDone(): `return this._callbacks === undefined`
isDone(cb, o) == ~cb[o].defined

\* `this.isDone` without a call: the method itself, which is an object and so
\* always truthy in a condition.
isDoneMethodIsTruthy == TRUE

\* JavaScript truthiness of a number: 0 is falsy.
Truthy(v) == v # 0

\* ------------------------------------------------------------ the program state
\* The operations below are functions from program state to program state,
\* so that a closure can call another one (a listener that re-triggers a
\* derived stream, a resolve that is unsubscribeDone).
St == [cb |-> callbacks, org |-> origin, cons |-> consumers, it |-> iter,
       pulls |-> pulls, mt |-> microtasks, out |-> outcome, tr |-> trace,
       el |-> element, esc |-> escaped, tm |-> timers]

Commit(st) ==
    /\ callbacks' = st.cb
    /\ origin' = st.org
    /\ consumers' = st.cons
    /\ iter' = st.it
    /\ pulls' = st.pulls
    /\ microtasks' = st.mt
    /\ outcome' = st.out
    /\ trace' = st.tr
    /\ element' = st.el
    /\ escaped' = st.esc
    /\ timers' = st.tm

Active == [kind |-> "active", err |-> "none"]
Root == [kind |-> "root", src |-> 0, at |-> 0, srcActive |-> FALSE]
NoIter == [made |-> FALSE, src |-> 0, c |-> 0, demanded |-> <<>>,
           queued |-> <<>>, done |-> "undefined", err |-> "none"]

\* ------------------------------------------------------------------ promises
\* A promise reaction waiting to run; m is the merged stream it belongs to.
Job(kind, err, m) == [kind |-> kind, err |-> err, m |-> m]

\* The stream Observable.merge made with forEach call c as one of its two.
MergeOf(st, c) ==
    CHOOSE m \in 1..Len(st.org) :
        st.org[m].kind = "merge" /\ c \in {st.org[m].ca, st.org[m].cb}

\* The derived stream whose executor made forEach call c (map, filter, ...).
DerivedOf(st, c) ==
    CHOOSE d \in 1..Len(st.org) :
        "cs" \in DOMAIN st.org[d] /\ c \in st.org[d].cs

\* The reactions chained on the promise of forEach call c when it was made;
\* they are queued as microtasks when the promise settles.
\*   "iter": `.then(...).catch(...)`.  A rejection first passes through the
\*           then() that has no rejection handler, one microtask before the
\*           catch() handler runs.
\*   "all":  the promise is an element of Promise.all([...]), which chains
\*           then(resolveElement, reject) on each element.
\*   "doneFail": `.then(done).catch(fail)` of a derived stream.
\*   "query": `.catch(reject)` of all() and any().
\*   "collect": `.then(() => c)` of collect(); the promise collect hands back
\*           is the record made next after the forEach call.
\*   "concat": `.then(() => other.forEach(trigger)).then(done).catch(fail)`.
\*   "concatOther": the promise of other.forEach(trigger), once the promise
\*           of the first then() has adopted it.
Reactions(st, c, how, val) ==
    LET p == st.cons[c]
    IN CASE p.react = "iter" ->
              IF how = "resolved"
              THEN <<Job("iterThen", "none", 0)>>
              ELSE <<Job("iterThenSkip", val, 0)>>
         [] p.react = "all" ->
              IF how = "resolved"
              THEN <<Job("allResolveElement", "none", MergeOf(st, c))>>
              ELSE <<Job("allReject", val, MergeOf(st, c))>>
         [] p.react = "doneFail" ->
              IF how = "resolved"
              THEN <<Job("thenDone", "none", DerivedOf(st, c))>>
              ELSE <<Job("thenDoneSkip", val, DerivedOf(st, c))>>
         [] p.react = "collect" ->
              IF how = "resolved" THEN <<Job("collectThen", "none", c)>>
              ELSE <<Job("collectSkip", val, c)>>
         [] p.react = "query" ->      \* all/any: `.catch(reject)`
              IF how = "resolved" THEN <<>>
              ELSE <<Job("queryReject", val, p.obs)>>
         [] p.react = "concat" ->
              IF how = "resolved"
              THEN <<Job("concatThen", "none", DerivedOf(st, c))>>
              ELSE <<Job("concatSkip", val, DerivedOf(st, c))>>
         [] p.react = "concatOther" ->
              IF how = "resolved"
              THEN <<Job("concatResolve", "none", DerivedOf(st, c))>>
              ELSE <<Job("concatReject", val, DerivedOf(st, c))>>
         [] OTHER -> <<>>

\* A call of the resolve or reject function of promise c.  Only the first call
\* settles the promise; every call is counted.
Settle(st, c, how, val) ==
    LET p == st.cons[c]
        first == p.state = "pending"
        q == [p EXCEPT !.calls = @ + 1,
                       !.state = IF first THEN how ELSE @,
                       !.val = IF first THEN val ELSE @]
    IN [st EXCEPT !.cons[c] = q,
                  !.mt = IF first THEN @ \o Reactions(st, c, how, val) ELSE @]

\* The same for the promise a next() call returned.
PullSettle(st, p, how, kind, v, err) ==
    LET r == st.pulls[p]
        first == r.state = "pending"
    IN [st EXCEPT !.pulls[p] =
            [r EXCEPT !.calls = @ + 1,
                      !.state = IF first THEN how ELSE @,
                      !.kind = IF first THEN kind ELSE @,
                      !.v = IF first THEN v ELSE @,
                      !.err = IF first THEN err ELSE @]]

\* ------------------------------------------------- ObservableAsyncIterator
\* The listener the constructor hands to observable.forEach.  `demanded` holds
\* objects, so `if (demanded)` is true exactly when shift() found one.
\* (a variant that serves the newest waiting call: pop() for shift())
IterListenerNewestFirst(st, v) ==
    IF st.it.demanded # <<>>
    THEN LET n == Len(st.it.demanded)
             s1 == [st EXCEPT !.it.demanded = SubSeq(@, 1, n - 1)]
         IN PullSettle(s1, st.it.demanded[n], "resolved", "value", v, "none")
    ELSE [st EXCEPT !.it.queued = Append(@, v)]

IterListener(st, v) ==
    IF st.it.demanded # <<>>
    THEN LET s1 == [st EXCEPT !.it.demanded = Tail(@)]
         IN PullSettle(s1, Head(st.it.demanded), "resolved", "value", v, "none")
    ELSE [st EXCEPT !.it.queued = Append(@, v)]

\* The promise a next() call returns.  trigAt and ahead are history: how many
\* values the source had delivered, and how many pulls were waiting, when the
\* call was queued in `demanded`.
Pull(state, kind, v, err, demandedAt, trigAt, ahead) ==
    [state |-> state, kind |-> kind, v |-> v, err |-> err,
     calls |-> IF state = "pending" THEN 0 ELSE 1,
     demanded |-> demandedAt, trigAt |-> trigAt, ahead |-> ahead]

\* next(): shift() removes the oldest queued value whatever it is; the test
\* `if (queued)` is its truthiness.
next(st) ==
    LET q == st.it.queued
        s1 == IF q # <<>> THEN [st EXCEPT !.it.queued = Tail(@)] ELSE st
        at == Len(st.tr[st.it.src])
    IN IF q # <<>> /\ Truthy(Head(q))
       THEN [s1 EXCEPT !.pulls =
                Append(@, Pull("resolved", "value", Head(q), "none", FALSE, at, 0))]
       ELSE IF s1.it.done = "resolved"
       THEN [s1 EXCEPT !.pulls =
                Append(@, Pull("resolved", "done", 0, "none", FALSE, at, 0))]
       ELSE IF s1.it.done = "rejected"
       THEN [s1 EXCEPT !.pulls =
                Append(@, Pull("rejected", "err", 0, s1.it.err, FALSE, at, 0))]
       ELSE [s1 EXCEPT
               !.pulls = Append(@, Pull("pending", "none", 0, "none", TRUE, at,
                                        Len(s1.it.demanded))),
               !.it.demanded = Append(@, Len(st.pulls) + 1)]

\* `for (const demanded of this.demanded) demanded.resolve(Instance)` and the
\* same loop with reject(err).
RECURSIVE SettleDemanded(_, _, _, _, _)
SettleDemanded(st, ps, how, kind, err) ==
    IF ps = <<>> THEN st
    ELSE SettleDemanded(PullSettle(st, Head(ps), how, kind, 0, err),
                        Tail(ps), how, kind, err)

\* The handler given to .then(): mark as done, settle what is demanded.
IterThen(st) ==
    LET s1 == [st EXCEPT !.it.done = "resolved"]
        s2 == SettleDemanded(s1, s1.it.demanded, "resolved", "done", "none")
    IN [s2 EXCEPT !.it.demanded = <<>>]

\* The handler given to .catch().
IterCatch(st, err) ==
    LET s1 == [st EXCEPT !.it.done = "rejected", !.it.err = err]
        s2 == SettleDemanded(s1, s1.it.demanded, "rejected", "err", err)
    IN [s2 EXCEPT !.it.demanded = <<>>]

\* ----------------------------------------------------- Observable constructor
RECURSIVE TriggerFrom(_, _, _, _, _, _)
RECURSIVE ResolveFrom(_, _, _, _, _)
RECURSIVE RejectFrom(_, _, _, _, _, _)
\* A listener may itself make an Observable and register on one.
RECURSIVE NewObservable(_, _)
RECURSIVE forEach(_, _, _, _, _)
RECURSIVE then(_, _, _)
RECURSIVE subscribe(_, _, _)
RECURSIVE UserExecutor(_)

\* Array.prototype.forEach visits the indices the array had when the walk
\* began and reads each entry when it reaches it.  The array is the one
\* this._callbacks named when the walk began: `arr` is its content as last
\* seen, which the field still shows while it is defined.
Live(st, o, arr) == IF st.cb[o].defined THEN st.cb[o].items ELSE arr

\* (a variant that forgets `this._callbacks = undefined`)
doneKeepsItems(st, o) ==
    IF st.cb[o].defined
    THEN LET s1 == ResolveFrom(st, o, st.cb[o].items, Len(st.cb[o].items), 1)
         IN [s1 EXCEPT !.out[o] = [kind |-> "done", err |-> "none"]]
    ELSE st

\* (a variant that clears the registry with `this._callbacks = []`)
doneClearsToEmpty(st, o) ==
    IF st.cb[o].defined
    THEN LET s1 == ResolveFrom(st, o, st.cb[o].items, Len(st.cb[o].items), 1)
         IN [s1 EXCEPT !.cb[o] = EmptyRegistry,
                       !.out[o] = [kind |-> "done", err |-> "none"]]
    ELSE [st EXCEPT !.cb[o] = EmptyRegistry]

done(st, o) ==
    IF st.cb[o].defined
    THEN LET s1 == ResolveFrom(st, o, st.cb[o].items, Len(st.cb[o].items), 1)
         IN [s1 EXCEPT !.cb[o] = Undefined,
                       !.out[o] = [kind |-> "done", err |-> "none"]]
    ELSE [st EXCEPT !.cb[o] = Undefined]

\* (a variant that forgets `this._callbacks = undefined`)
failKeepsItems(st, o, err) ==
    IF st.cb[o].defined
    THEN LET s1 == RejectFrom(st, o, st.cb[o].items, Len(st.cb[o].items), 1, err)
         IN [s1 EXCEPT !.out[o] = [kind |-> "failed", err |-> err]]
    ELSE st

fail(st, o, err) ==
    IF st.cb[o].defined
    THEN LET s1 == RejectFrom(st, o, st.cb[o].items, Len(st.cb[o].items), 1, err)
         IN [s1 EXCEPT !.cb[o] = Undefined,
                       !.out[o] = [kind |-> "failed", err |-> err]]
    ELSE [st EXCEPT !.cb[o] = Undefined]

trigger(st, o, v) ==
    IF st.cb[o].defined
    THEN TriggerFrom([st EXCEPT !.tr[o] = Append(@, v)], o,
                     st.cb[o].items, Len(st.cb[o].items), 1, v)
    ELSE st

\* subscribe's closures over `this` (src), `index` (idx) and the derived
\* stream's own done/fail (d).
unsubscribeOnly(st, src, idx) ==
    IF st.cb[src].defined /\ st.cb[src].items[idx].kind # "undefined"
    THEN [st |-> [st EXCEPT !.cb[src].items[idx] = NoSlot], ok |-> TRUE]
    ELSE [st |-> st, ok |-> FALSE]

unsubscribeDone(st, src, idx, d) ==
    LET r == unsubscribeOnly(st, src, idx)
    IN IF r.ok THEN done(r.st, d) ELSE r.st

unsubscribeFail(st, src, idx, d, err) ==
    LET r == unsubscribeOnly(st, src, idx)
    IN IF r.ok THEN fail(r.st, d, err) ELSE r.st

\* ------------------------------------------- the listeners of derived streams
\* What the callers hand to map, reduce and withConditions.
mapper(v) == 2 * v + 1
reducer(acc, v) == acc + v
Every(conditions, v) == \A c \in conditions : v \in c

\* The listener a derived stream d hands to forEach on its source, by the
\* method that made d.  org[d] holds what the listener's closure holds: the
\* predicate(s) as the set of values they hold of, skipN's n, reduce's
\* initialValue.
Forwarders ==
    {"map", "filter", "withConditions", "skipN", "reduce", "trigger",
     "flatMap"}

\* flatMap's listener, `obj => mapper(obj).forEach(trigger)`.  mapper(obj)
\* makes a new Observable, whose three closures the caller keeps, so it is
\* driven like a root; the forEach call on it is one more call of d's.
FlatMapListener(st, d, v) ==
    LET inner == Len(st.cb) + 1
        c == Len(st.cons) + 1
        s1 == NewObservable(st, [kind |-> "inner", src |-> 0, at |-> 0,
                                 srcActive |-> FALSE, by |-> d, of |-> v])
    IN forEach([s1 EXCEPT !.org[d].cs = @ \cup {c}], inner, "trigger",
               NoThrow, "none")

Forward(st, how, d, v) ==
    CASE how = "map" -> trigger(st, d, mapper(v))
      [] how = "filter" ->        \* if (predicate(obj)) trigger(obj)
           IF v \in st.org[d].pass THEN trigger(st, d, v) ELSE st
      [] how = "withConditions" ->
           IF Every(st.org[d].conditions, v) THEN trigger(st, d, v) ELSE st
      [] how = "skipN" ->         \* if (n <= 0) trigger(obj); else n--
           IF st.org[d].n <= 0 THEN trigger(st, d, v)
           ELSE [st EXCEPT !.org[d].n = @ - 1]
      [] how = "trigger" -> trigger(st, d, v)     \* forEach(trigger)
      [] how = "flatMap" -> FlatMapListener(st, d, v)
      [] OTHER ->                 \* "reduce"
           LET acc == reducer(st.org[d].initialValue, v)
           IN trigger([st EXCEPT !.org[d].initialValue = acc], d, acc)

\* A listener of the caller's that registers a consumer on the Observable o
\* that is invoking it: by forEach, by then, or by subscribe with an executor
\* that returns a listener.
Registering == {"reForEach", "reThen", "reSubscribe"}
Register(st, how, o) ==
    CASE how = "reForEach" -> forEach(st, o, "child", NoThrow, "none")
      [] how = "reThen" -> then(st, o, "r1")
      [] OTHER -> subscribe(st, o, UserExecutor(TRUE))

\* A listener of the caller's that ends the Observable o that is invoking
\* it, with the done or the fail its executor was given.
Terminating == {"reDone", "reFail"}
Terminate(st, how, o) ==
    IF how = "reDone" THEN done(st, o) ELSE fail(st, o, "e1")

\* all/any's listener has found the answer: `resolved = true; resolve(val)`
\* on the query promise q of the derived stream d.
Answer(st, d, val) ==
    Settle([st EXCEPT !.org[d].resolved = TRUE], st.org[d].q, "resolved", val)

\* cb.listener(obj): the new state, and whether the listener threw.
Listener(st, cb, v) ==
    CASE cb.kind = "forEach" ->
           LET p == st.cons[cb.c]
           IN IF p.listener = "iter"
              THEN [st |-> IterListener(st, v), threw |-> FALSE]
              ELSE IF p.listener = "forward"   \* merge: a.forEach(trigger)
              THEN [st |-> trigger(st, MergeOf(st, cb.c), v), threw |-> FALSE]
              ELSE IF p.listener \in Forwarders
              THEN \* the caller's predicate is called first: when it
                   \* throws, the listener throws before it triggers
                   IF p.throwOn = v THEN [st |-> st, threw |-> TRUE]
                   ELSE [st |-> Forward(st, p.listener, DerivedOf(st, cb.c),
                                        v),
                         threw |-> FALSE]
              ELSE IF p.listener \in Terminating
              THEN [st |-> Terminate([st EXCEPT
                                        !.cons[cb.c].seen = Append(@, v)],
                                     p.listener, p.obs),
                    threw |-> FALSE]
              ELSE IF p.listener \in Registering
              THEN [st |-> Register([st EXCEPT !.cons[cb.c].seen = Append(@, v)],
                                    p.listener, p.obs),
                    threw |-> FALSE]
              ELSE [st |-> [st EXCEPT !.cons[cb.c].seen = Append(@, v)],
                    threw |-> p.throwOn = v]
      [] cb.kind = "then" -> [st |-> st, threw |-> FALSE]
      [] OTHER ->   \* "subscribe": preTrigger
           LET s1 == trigger(st, cb.d, v)
               how == IF cb.c = 0 THEN "none" ELSE s1.cons[cb.c].listener
               s2 == IF cb.c = 0 THEN s1
                     ELSE [s1 EXCEPT !.cons[cb.c].seen = Append(@, v)]
           IN CASE how = "none" -> [st |-> s1, threw |-> FALSE]
                [] how = "firstN" ->   \* if (n-- === 0) unsubscribe()
                     LET n == s2.org[cb.d].n
                         s3 == [s2 EXCEPT !.org[cb.d].n = n - 1]
                     IN [st |-> IF n = 0
                                THEN unsubscribeDone(s3, cb.src, cb.idx, cb.d)
                                ELSE s3,
                         threw |-> FALSE]
                [] how = "whileConditions" ->
                     [st |-> IF v \in s2.org[cb.d].pass THEN s2
                             ELSE unsubscribeDone(s2, cb.src, cb.idx, cb.d),
                      threw |-> FALSE]
                [] how \in {"all", "any"} ->
                     \* all: if (!predicate(obj)) { unsubscribe(); ... }
                     \* any: if (predicate(obj)) { unsubscribe(); ... }
                     LET hit == (how = "any") <=> (v \in s2.org[cb.d].pass)
                     IN [st |-> IF hit
                                THEN Answer(unsubscribeDone(s2, cb.src, cb.idx,
                                                            cb.d),
                                            cb.d,
                                            IF how = "any" THEN "true"
                                            ELSE "false")
                                ELSE s2,
                         threw |-> FALSE]
                [] OTHER ->
                     [st |-> s2, threw |-> s2.cons[cb.c].throwOn = v]

\* The function fromListener hands to addEventListener, and the one it hands
\* to removeEventListener.
Wrapper(s) == [sub |-> s, fn |-> "cb => trigger(cb)"]
TriggerFn(s) == [sub |-> s, fn |-> "trigger"]

\* element.removeEventListener(event, fn): the first entry that is fn.
RECURSIVE removeEventListener(_, _)
removeEventListener(el, fn) ==
    IF el = <<>> THEN <<>>
    ELSE IF Head(el) = fn THEN Tail(el)
    ELSE <<Head(el)>> \o removeEventListener(Tail(el), fn)

\* action(), the callback given to then(): the caller's returns a value;
\* fromListener's is `() => element.removeEventListener(event, trigger)`.
RunAction(st, c) ==
    LET s1 == [st EXCEPT !.cons[c].runs = @ + 1]
        d == st.cons[c].obs
    IN IF st.cons[c].ret = "detach"
       THEN [s1 EXCEPT !.el = removeEventListener(@, TriggerFn(st.cons[c].obs))]
       ELSE IF st.cons[c].ret = "answer"
       THEN \* all: if (!resolved) resolve(true); any: ... resolve(false)
            IF st.org[d].resolved THEN s1
            ELSE Settle(s1, st.org[d].q, "resolved",
                        IF st.org[d].kind = "all" THEN "true" ELSE "false")
       ELSE s1

\* cb.resolve()
SlotResolve(st, cb) ==
    CASE cb.kind = "forEach" -> Settle(st, cb.c, "resolved", "undefined")
      [] cb.kind = "then" ->
           Settle(RunAction(st, cb.c), cb.c, "resolved", st.cons[cb.c].ret)
      [] OTHER -> unsubscribeDone(st, cb.src, cb.idx, cb.d)

\* cb.reject(err)
SlotReject(st, cb, err) ==
    CASE cb.kind \in {"forEach", "then"} -> Settle(st, cb.c, "rejected", err)
      [] OTHER -> unsubscribeFail(st, cb.src, cb.idx, cb.d, err)

\* The catch block of trigger: `cb.reject(e); if (this._callbacks)
\* this._callbacks[idx] = undefined`.
\* (a variant that rejects and leaves the slot in the registry)
CaughtKeepsSlot(st, o, cb, i, e) == SlotReject(st, cb, e)

Caught(st, o, cb, i, e) ==
    LET s1 == SlotReject(st, cb, e)
    IN IF s1.cb[o].defined THEN [s1 EXCEPT !.cb[o].items[i] = NoSlot] ELSE s1

\* (a variant whose walk ends at the first removed slot: `if (!cb) return`
\* taken for leaving the loop)
RECURSIVE TriggerFromStopsAtHole(_, _, _, _, _, _)
TriggerFromStopsAtHole(st, o, arr, n, i, v) ==
    IF i > n THEN st
    ELSE LET live == Live(st, o, arr)
             cb == live[i]
         IN IF cb.kind = "undefined"
            THEN st
            ELSE LET r == Listener(st, cb, v)
                     s2 == IF r.threw THEN Caught(r.st, o, cb, i, Thrown)
                           ELSE r.st
                 IN TriggerFromStopsAtHole(s2, o, live, n, i + 1, v)

\* (a variant whose walk ends when a listener throws: the try/catch around
\* the whole walk instead of around one listener)
RECURSIVE TriggerFromThrowEscapes(_, _, _, _, _, _)
TriggerFromThrowEscapes(st, o, arr, n, i, v) ==
    IF i > n THEN st
    ELSE LET live == Live(st, o, arr)
             cb == live[i]
         IN IF cb.kind = "undefined"
            THEN TriggerFromThrowEscapes(st, o, live, n, i + 1, v)
            ELSE LET r == Listener(st, cb, v)
                 IN IF r.threw THEN Caught(r.st, o, cb, i, Thrown)
                    ELSE TriggerFromThrowEscapes(r.st, o, live, n, i + 1, v)

TriggerFrom(st, o, arr, n, i, v) ==
    IF i > n THEN st
    ELSE LET live == Live(st, o, arr)
             cb == live[i]
         IN IF cb.kind = "undefined"
            THEN TriggerFrom(st, o, live, n, i + 1, v)
            ELSE LET r == Listener(st, cb, v)
                     s2 == IF r.threw THEN Caught(r.st, o, cb, i, Thrown)
                           ELSE r.st
                 IN TriggerFrom(s2, o, live, n, i + 1, v)

ResolveFrom(st, o, arr, n, i) ==
    IF i > n THEN st
    ELSE LET live == Live(st, o, arr)
             cb == live[i]
         IN ResolveFrom(IF cb.kind = "undefined" THEN st ELSE SlotResolve(st, cb),
                        o, live, n, i + 1)

RejectFrom(st, o, arr, n, i, err) ==
    IF i > n THEN st
    ELSE LET live == Live(st, o, arr)
             cb == live[i]
         IN RejectFrom(IF cb.kind = "undefined" THEN st
                       ELSE SlotReject(st, cb, err),
                       o, live, n, i + 1, err)

\* `new Observable(executor)`: the field initialiser `_callbacks = []`, then the
\* executor.  The result is the state and the new Observable's identity.
NewObservable(st, org) ==
    [st EXCEPT !.cb = Append(@, EmptyRegistry),
               !.org = Append(@, org),
               !.out = Append(@, Active),
               !.tr = Append(@, <<>>)]

\* Observable.empty(): the executor calls done() at once.
empty(st, org) == done(NewObservable(st, org), Len(st.cb) + 1)

\* ------------------------------------------------------- Observable's methods
\* The record kept for one forEach/then call: the listener handed in, the
\* promise handed back, and what the listener has been invoked with.  regAt
\* and regOut are history: how many values o had delivered, and what o's
\* outcome was, when the call was made.  slot is the index the call pushed at.
When(st, o) == [at |-> Len(st.tr[o]), out |-> st.out[o].kind]

Consumer(o, kind, listener, throwOn, ret, react, regAt) ==
    [obs |-> o, kind |-> kind, listener |-> listener, throwOn |-> throwOn,
     ret |-> ret, react |-> react, slot |-> 0, regAt |-> regAt.at,
     regOut |-> regAt.out,
     seen |-> <<>>, state |-> "pending", val |-> "none", calls |-> 0,
     runs |-> 0]

forEach(st, o, listener, throwOn, react) ==
    LET c == Len(st.cons) + 1
        p == Consumer(o, "forEach", listener, throwOn, "undefined", react,
                      When(st, o))
    IN IF isDone(st.cb, o)
       THEN Settle([st EXCEPT !.cons = Append(@, p)], c, "resolved", "undefined")
       ELSE [st EXCEPT
               !.cons = Append(@, [p EXCEPT !.slot = Len(st.cb[o].items) + 1]),
               !.cb[o].items = Append(@, CallbackItem("forEach", c, 0, 0, 0))]

then(st, o, ret) ==
    LET c == Len(st.cons) + 1
        p == Consumer(o, "then", "noop", NoThrow, ret, "none", When(st, o))
    IN IF isDone(st.cb, o)
       THEN Settle(RunAction([st EXCEPT !.cons = Append(@, p)], c),
                   c, "resolved", ret)
       ELSE [st EXCEPT
               !.cons = Append(@, [p EXCEPT !.slot = Len(st.cb[o].items) + 1]),
               !.cb[o].items = Append(@, CallbackItem("then", c, 0, 0, 0))]

\* The executors handed to subscribe(), by what they do with the two handles
\* and what they return:
\*   listener  "none", or the listener returned: "user" (the caller's own),
\*             "firstN" (`if (n-- === 0) unsubscribe()`), "whileConditions"
\*             (`if (!conditions.every(c => c(obj))) unsubscribe()`)
\*   timer     "none", or what the setTimeout callback calls: "fail"
\*             (withTimeout: fail(ERROR_TIMEOUT)), "unsubscribe" (firstT)
\*   n, pass   firstN's counter; the values every condition holds of
Executor(kind, listener, timer, n, pass) ==
    [kind |-> kind, listener |-> listener, timer |-> timer, n |-> n,
     pass |-> pass]

\* The caller's own executor, which arms nothing.
UserExecutor(withListener) ==
    Executor("subscribe", IF withListener THEN "user" ELSE "none", "none", 0, {})

\* subscribe(executor).  The guard reads `this.isDone`, not `this.isDone()`.
\* In the other branch `index` is the place the push below fills, and the
\* executor (which may arm a timer and may return a listener) receives the
\* two handles.
subscribe(st, o, executor) ==
    LET org == [kind |-> executor.kind, src |-> o, at |-> Len(st.tr[o]),
                srcActive |-> ~isDone(st.cb, o), n |-> executor.n,
                pass |-> executor.pass]
    IN IF isDoneMethodIsTruthy
       THEN empty(st, org)
       ELSE IF isDone(st.cb, o)
       THEN st     \* `this._callbacks!.length` throws: nothing is made
       ELSE LET d == Len(st.cb) + 1
                s1 == NewObservable(st, org)
                index == Len(s1.cb[o].items) + 1
                withListener == executor.listener # "none"
                c == IF withListener THEN Len(s1.cons) + 1 ELSE 0
                l == Consumer(o, "setup", executor.listener, NoThrow,
                              "undefined", "none", When(s1, o))
                s2 == [s1 EXCEPT
                         !.cb[o].items =
                             Append(@, CallbackItem("subscribe", c, d, o, index)),
                         !.cons = IF withListener
                                  THEN Append(@, [l EXCEPT !.slot = index])
                                  ELSE @]
            IN IF executor.timer = "none" THEN s2
               ELSE [s2 EXCEPT !.tm =
                        Append(@, [fires |-> executor.timer, src |-> o,
                                   idx |-> index, d |-> d, fired |-> FALSE])]

\* `export const ERROR_TIMEOUT = new Error("Observable timed out.")`
ERROR_TIMEOUT == "Observable timed out."

withTimeout(st, o) ==
    subscribe(st, o, Executor("withTimeout", "none", "fail", 0, {}))

whileConditions(st, o, pass) ==
    subscribe(st, o, Executor("whileConditions", "whileConditions", "none", 0,
                              pass))

firstN(st, o, n) ==
    IF n <= 0
    THEN empty(st, [kind |-> "firstN", src |-> o, at |-> Len(st.tr[o]),
                    srcActive |-> ~isDone(st.cb, o), n |-> n, pass |-> {}])
    ELSE subscribe(st, o, Executor("firstN", "firstN", "none", n, {}))

firstT(st, o) ==
    subscribe(st, o, Executor("firstT", "none", "unsubscribe", 0, {}))

\* ------------------------------------------- the streams derived by forEach
\* `new Observable((trigger, done, fail) => { this.forEach(listener)... })`:
\* the new stream d, and the forEach call its executor makes on o, with the
\* reactions chained on the promise ("doneFail" is .then(done).catch(fail)).
\* n0 keeps the n that skipN was called with.
DerivedOrigin(st, kind, o, n, pass, conditions, initialValue) ==
    [kind |-> kind, src |-> o, at |-> Len(st.tr[o]),
     srcActive |-> ~isDone(st.cb, o), out |-> st.out[o].kind,
     n |-> n, n0 |-> n, pass |-> pass, conditions |-> conditions,
     initialValue |-> initialValue, seed |-> initialValue,
     cs |-> {Len(st.cons) + 1}]

\* map: the promise forEach returns is dropped.
map(st, o) ==
    forEach(NewObservable(st, DerivedOrigin(st, "map", o, 0, {}, {}, 0)),
            o, "map", NoThrow, "none")

\* A predicate of the caller's is the set of values it returns true on and
\* the value it throws on (NoThrow when it never throws).
\* (a filter that drops the promise of its forEach call, as map does)
filterDropsPromise(st, o, predicate, throwsOn) ==
    forEach(NewObservable(st, DerivedOrigin(st, "filter", o, 0, predicate,
                                            {}, 0)),
            o, "filter", throwsOn, "none")

filter(st, o, predicate, throwsOn) ==
    forEach(NewObservable(st, DerivedOrigin(st, "filter", o, 0, predicate,
                                            {}, 0)),
            o, "filter", throwsOn, "doneFail")

\* conditions.every(c => c(obj)) calls the first condition on every value:
\* throwsOn is the value that one throws on.
withConditions(st, o, conditions, throwsOn) ==
    forEach(NewObservable(st, DerivedOrigin(st, "withConditions", o, 0, {},
                                            conditions, 0)),
            o, "withConditions", throwsOn, "doneFail")

skipN(st, o, n) ==
    forEach(NewObservable(st, DerivedOrigin(st, "skipN", o, n, {}, {}, 0)),
            o, "skipN", NoThrow, "doneFail")

\* A flatMap that takes the done of an outer stream that is already done
\* seriously.
flatMapEndsWithOuter(st, o) ==
    LET s1 == forEach(NewObservable(st, DerivedOrigin(st, "flatMap", o, 0, {},
                                                      {}, 0)),
                      o, "flatMap", NoThrow, "none")
    IN IF isDone(st.cb, o) THEN done(s1, Len(st.cb) + 1) ELSE s1

\* flatMap: the promise forEach returns is dropped, as in map.
flatMap(st, o) ==
    forEach(NewObservable(st, DerivedOrigin(st, "flatMap", o, 0, {}, {}, 0)),
            o, "flatMap", NoThrow, "none")

\* reduce: trigger(initialValue) runs first, inside the executor.
reduce(st, o, initialValue) ==
    LET d == Len(st.cb) + 1
        s1 == NewObservable(st, DerivedOrigin(st, "reduce", o, 0, {}, {},
                                              initialValue))
    IN forEach(trigger(s1, d, initialValue), o, "reduce", NoThrow, "doneFail")

\* skipT(t): the executor only arms a timer.
skipT(st, o) ==
    LET d == Len(st.cb) + 1
        org == [DerivedOrigin(st, "skipT", o, 0, {}, {}, 0) EXCEPT !.cs = {}]
    IN [NewObservable(st, org) EXCEPT
          !.tm = Append(@, [fires |-> "skipT", src |-> o, idx |-> 0,
                            d |-> d, fired |-> FALSE])]

\* The callback of skipT's timer i:
\* `this.forEach(trigger).then(done).catch(fail)`.
SkipTCallback(st, i) ==
    LET t == st.tm[i]
    IN forEach([st EXCEPT !.tm[i].fired = TRUE,
                          !.org[t.d].cs = {Len(st.cons) + 1}],
               t.src, "trigger", NoThrow, "doneFail")

\* concat(other): the executor registers on `this`; co is the forEach call
\* made on other later (0: not yet).
concat(st, o, other) ==
    LET org == [kind |-> "concat", src |-> o, at |-> Len(st.tr[o]),
                srcActive |-> ~isDone(st.cb, o), out |-> st.out[o].kind,
                other |-> other, co |-> 0, cs |-> {Len(st.cons) + 1}]
    IN forEach(NewObservable(st, org), o, "trigger", NoThrow, "concat")

\* `() => other.forEach(trigger)`, run as the reaction to this.forEach's
\* promise.  It returns a promise, so the promise of then() adopts it: a
\* further job will chain on it.
ConcatThen(st, d) ==
    LET c == Len(st.cons) + 1
        s1 == forEach([st EXCEPT !.org[d].co = c, !.org[d].cs = @ \cup {c}],
                      st.org[d].other, "trigger", NoThrow, "none")
    IN [s1 EXCEPT !.mt = Append(@, Job("concatAdopt", "none", d))]

\* The adopting job: other.forEach's promise.then(resolve, reject) of the
\* promise of then().  A promise settled by now reacts at once.
ConcatAdopt(st, d) ==
    LET c == st.org[d].co
        p == st.cons[c]
        s1 == [st EXCEPT !.cons[c].react = "concatOther"]
    IN IF p.state = "pending" THEN s1
       ELSE [s1 EXCEPT !.mt = @ \o Reactions(s1, c, p.state, p.val)]

\* all(predicate) and any(predicate): the promise q handed back, and, for a
\* source that is not done, the stream d of subscribe with the closure's
\* `resolved` and, registered on d by Observable.then, the action that
\* answers when d is done.
Query(st, o, kind, pass) ==
    LET q == Len(st.cons) + 1
        p == Consumer(o, kind, "none", NoThrow, "undefined", "none", When(st, o))
        s1 == [st EXCEPT !.cons = Append(@, p)]
    IN IF isDone(st.cb, o)
       THEN Settle(s1, q, "resolved", IF kind = "all" THEN "true" ELSE "false")
       ELSE LET d == Len(s1.cb) + 1
                s2 == subscribe(s1, o, Executor(kind, kind, "none", 0, pass))
                s3 == [s2 EXCEPT !.org[d] = [kind |-> @.kind, src |-> @.src,
                                             at |-> @.at,
                                             srcActive |-> @.srcActive,
                                             n |-> @.n, pass |-> @.pass,
                                             resolved |-> FALSE, q |-> q]]
                t == Len(s3.cons) + 1
            IN [then(s3, d, "answer") EXCEPT !.cons[t].react = "query"]

all(st, o, pass) == Query(st, o, "all", pass)
any(st, o, pass) == Query(st, o, "any", pass)

\* collect(): on a done Observable `Promise.resolve([])`; otherwise the
\* forEach call whose listener pushes onto c, and the promise of
\* `.then(() => c)`, which is resolved with c (the log of that call) or
\* rejected one reaction after the forEach call's promise.
collect(st, o) ==
    LET c == Len(st.cons) + 1
        p == Consumer(o, "collect", "none", NoThrow, "undefined", "none",
                      When(st, o))
    IN IF isDone(st.cb, o)
       THEN Settle([st EXCEPT !.cons = Append(@, p)], c, "resolved", "[]")
       ELSE LET s1 == forEach(st, o, "user", NoThrow, "collect")
            IN [s1 EXCEPT !.cons = Append(@, p)]

\* array.forEach(trigger), inside the executor.
RECURSIVE TriggerEach(_, _, _)
TriggerEach(st, o, array) ==
    IF array = <<>> THEN st
    ELSE TriggerEach(trigger(st, o, Head(array)), o, Tail(array))

\* (a variant whose executor does not call done())
fromArrayStaysOpen(st, array) ==
    LET o == Len(st.cb) + 1
        s1 == NewObservable(st, [kind |-> "fromArray", src |-> 0, at |-> 0,
                                 srcActive |-> FALSE, array |-> array])
    IN TriggerEach(s1, o, array)

\* Observable.fromArray(array): `array.forEach(trigger); done();`
fromArray(st, array) ==
    LET o == Len(st.cb) + 1
        s1 == NewObservable(st, [kind |-> "fromArray", src |-> 0, at |-> 0,
                                 srcActive |-> FALSE, array |-> array])
    IN done(TriggerEach(s1, o, array), o)

\* Observable.just(val): `trigger(val); done();`
just(st, val) ==
    LET o == Len(st.cb) + 1
        s1 == NewObservable(st, [kind |-> "just", src |-> 0, at |-> 0,
                                 srcActive |-> FALSE, array |-> <<val>>])
    IN done(trigger(s1, o, val), o)

\* ------------------------------------------------------- Observable.merge
\* merge(a, b): `Promise.all([a.forEach(trigger), b.forEach(trigger)])
\* .then(done).catch(fail)` inside the executor of the new Observable.  The
\* origin record keeps what the executor's promises hold: how many elements
\* Promise.all still waits for, and the state of the promise it returned.
merge(st, a, b) ==
    LET c == Len(st.cons) + 1
        s1 == NewObservable(st, [kind |-> "merge", src |-> 0, at |-> 0,
                                 srcActive |-> ~isDone(st.cb, a)
                                               /\ ~isDone(st.cb, b),
                                 a |-> a, b |-> b, ca |-> c, cb |-> c + 1,
                                 atA |-> Len(st.tr[a]), atB |-> Len(st.tr[b]),
                                 remaining |-> 2, all |-> "pending"])
        s2 == forEach(s1, a, "forward", NoThrow, "all")
    IN forEach(s2, b, "forward", NoThrow, "all")

\* Promise.all's resolveElement: the last one fulfils the promise, whose
\* reaction is then(done).
AllResolveElement(st, m) ==
    LET rem == st.org[m].remaining - 1
        s1 == [st EXCEPT !.org[m].remaining = rem]
    IN IF rem = 0 /\ st.org[m].all = "pending"
       THEN [s1 EXCEPT !.org[m].all = "resolved",
                       !.mt = Append(@, Job("thenDone", "none", m))]
       ELSE s1

\* Promise.all's reject: the first one rejects the promise; the rejection
\* passes through then(done) before it reaches catch(fail).
AllReject(st, m, err) ==
    IF st.org[m].all = "pending"
    THEN [st EXCEPT !.org[m].all = "rejected",
                    !.mt = Append(@, Job("thenDoneSkip", err, m))]
    ELSE st

\* ------------------------------------------------------------- Subscription
\* In the constructor of a derived class `this` is bound when super() returns.
\* The arrow function handed to super() is called by Observable's constructor,
\* that is before super() returns: reading `this` in it throws a
\* ReferenceError (compiled to ES5, `_this` is still undefined there and the
\* assignment throws a TypeError).
ThisIsBoundInsideSuper == FALSE

\* `const sub = new Subscription(executor)`: sub is initialised when the
\* constructor has returned, and the executor runs before that.
SubIsInitialisedInsideExecutor == FALSE

\* An exception leaves the call `call` made by the user of the library.
Throw(st, call, error) ==
    [st |-> [st EXCEPT !.esc = Append(@, [call |-> call, error |-> error])],
     threw |-> TRUE]

\* The executor fromListener gives to `new Subscription`, run for the
\* Subscription s that is being constructed.
ListenExecutor(st, s, call) ==
    LET s1 == [st EXCEPT !.el = Append(@, Wrapper(s))]
    IN IF SubIsInitialisedInsideExecutor
       THEN [st |-> then(s1, s, "detach"), threw |-> FALSE]
       ELSE Throw(s1, call, "ReferenceError")

\* this.dispose = done
dispose(st, s) == done(st, s)

\* new Subscription(executor), called inside `call`.  which = "listen" is
\* fromListener's executor; any other is one that keeps the closures.  When
\* the constructor throws no object is handed to the caller.
Subscription(st, which, call) ==
    IF ThisIsBoundInsideSuper
    THEN LET s == Len(st.cb) + 1
             s1 == NewObservable(st, [kind |-> IF which = "listen"
                                               THEN "fromListener"
                                               ELSE "subscription",
                                      src |-> 0, at |-> 0,
                                      srcActive |-> FALSE])
         IN IF which = "listen" THEN ListenExecutor(s1, s, call)
            ELSE [st |-> s1, threw |-> FALSE]
    ELSE Throw(st, call, "ReferenceError")

\* Subscription.fromListener(element, event)
fromListener(st) == Subscription(st, "listen", "fromListener")

\* ------------------------------------------------------------------ actions
Observables == 1..Len(callbacks)

\* The Observables whose trigger/done/fail the caller's executor kept.
Roots == {o \in Observables : origin[o].kind \in {"root", "inner"}}

RECURSIVE SumLen(_)
SumLen(seqs) == IF seqs = <<>> THEN 0 ELSE Len(Head(seqs)) + SumLen(Tail(seqs))

\* The values the producers have delivered so far.
RootTraces == [o \in Observables |-> IF o \in Roots THEN trace[o] ELSE <<>>]

\* A producer call on o is counted as late when a terminal closure has
\* already walked o's registry; the bounds stop the producer, not the code.
Terminated(o) == outcome[o].kind # "active"
Producer(o, op) ==
    /\ o \in Roots
    /\ Terminated(o) => Len(late) < MaxLate
    /\ late' = IF Terminated(o) THEN Append(late, op) ELSE late

\* new Observable((trigger, done, fail) => { keep them }): the executor has
\* run and has set nothing in motion.
Init ==
    /\ callbacks = <<EmptyRegistry>>
    /\ origin = <<Root>>
    /\ consumers = <<>>
    /\ iter = NoIter
    /\ pulls = <<>>
    /\ microtasks = <<>>
    /\ outcome = <<Active>>
    /\ trace = << <<>> >>
    /\ late = <<>>
    /\ element = <<>>
    /\ escaped = <<>>
    /\ timers = <<>>

Trigger(o, v) ==
    /\ Producer(o, "trigger")
    /\ Terminated(o) \/ SumLen(RootTraces) < MaxTriggers
    /\ Commit(trigger(St, o, v))

Done(o) ==
    /\ Producer(o, "done")
    /\ Commit(done(St, o))

Fail(o, e) ==
    /\ Producer(o, "fail")
    /\ Commit(fail(St, o, e))

ForEach(o, throwOn) ==
    /\ o \in Observables
    /\ Len(consumers) < MaxConsumers
    /\ Commit(forEach(St, o, "user", throwOn, "none"))
    /\ UNCHANGED late

Then(o, ret) ==
    /\ o \in Observables
    /\ Len(consumers) < MaxConsumers
    /\ Commit(then(St, o, ret))
    /\ UNCHANGED late

Subscribe(o, withListener) ==
    /\ o \in Observables
    /\ Len(callbacks) < MaxObs
    /\ Commit(subscribe(St, o, UserExecutor(withListener)))
    /\ UNCHANGED late

Next ==
    \/ \E o \in Observables, v \in Values : Trigger(o, v)
    \/ \E o \in Observables : Done(o)
    \/ \E o \in Observables, e \in Errors : Fail(o, e)
    \/ \E o \in Observables, t \in ThrowOn : ForEach(o, t)
    \/ \E o \in Observables, r \in ActionRets : Then(o, r)

Spec == Init /\ [][Next]_vars

\* The same with subscribe(), which makes further Observables.
NextSub ==
    \/ Next
    \/ \E o \in Observables, l \in BOOLEAN : Subscribe(o, l)

SpecSub == Init /\ [][NextSub]_vars

\* ------------------------------------------- the combinators over subscribe
\* The arguments tried: firstN's n, and for whileConditions the set of values
\* of which every condition holds.
FirstNs == -1..MaxTriggers
Passes == SUBSET Values

Derive(st) ==
    /\ Len(callbacks) < MaxObs
    /\ Commit(st)
    /\ UNCHANGED late

WithTimeout(o) == o \in Observables /\ Derive(withTimeout(St, o))

FirstT(o) == o \in Observables /\ Derive(firstT(St, o))

FirstN(o, n) == o \in Observables /\ Derive(firstN(St, o, n))

WhileConditions(o, pass) ==
    o \in Observables /\ Derive(whileConditions(St, o, pass))

NextDerived ==
    \/ Next
    \/ \E o \in Observables : WithTimeout(o)
    \/ \E o \in Observables : FirstT(o)
    \/ \E o \in Observables, n \in FirstNs : FirstN(o, n)
    \/ \E o \in Observables, pass \in Passes : WhileConditions(o, pass)

SpecDerived == Init /\ [][NextDerived]_vars

\* ----------------------------------------------------- Subscription's actions
NewSubscription ==
    /\ Len(escaped) < MaxEscaped
    /\ Len(callbacks) < MaxObs
    /\ Commit(Subscription(St, "keep", "new Subscription").st)
    /\ UNCHANGED late

FromListener ==
    /\ Len(escaped) < MaxEscaped
    /\ Len(callbacks) < MaxObs
    /\ Commit(fromListener(St).st)
    /\ UNCHANGED late

NextSubscription ==
    \/ Next
    \/ NewSubscription
    \/ FromListener

SpecSubscription == Init /\ [][NextSubscription]_vars

\* ------------------------------------------------- the pull adapter's actions
\* new ObservableAsyncIterator(observable): forEach with the listener, and the
\* .then().catch() reactions on the promise it returns.
IterCtor(o) ==
    /\ ~iter.made
    /\ o \in Observables
    /\ Len(consumers) < MaxConsumers
    /\ LET s1 == [St EXCEPT !.it.made = TRUE, !.it.src = o,
                            !.it.c = Len(consumers) + 1]
       IN Commit(forEach(s1, o, "iter", NoThrow, "iter"))
    /\ UNCHANGED late

IterNext ==
    /\ iter.made
    /\ Len(pulls) < MaxPulls
    /\ Commit(next(St))
    /\ UNCHANGED late

\* The event loop runs the oldest promise reaction.
RunMicrotask ==
    /\ microtasks # <<>>
    /\ LET job == Head(microtasks)
           s1 == [St EXCEPT !.mt = Tail(@)]
       IN Commit(CASE job.kind = "iterThen" -> IterThen(s1)
                   [] job.kind = "iterThenSkip" ->
                        [s1 EXCEPT !.mt = Append(@, Job("iterCatch", job.err, 0))]
                   [] job.kind = "iterCatch" -> IterCatch(s1, job.err)
                   [] job.kind = "allResolveElement" ->
                        AllResolveElement(s1, job.m)
                   [] job.kind = "allReject" -> AllReject(s1, job.m, job.err)
                   [] job.kind = "collectThen" ->
                        Settle(s1, job.m + 1, "resolved", "c")
                   [] job.kind = "collectSkip" ->
                        Settle(s1, job.m + 1, "rejected", job.err)
                   [] job.kind = "queryReject" ->
                        Settle(s1, s1.org[job.m].q, "rejected", job.err)
                   [] job.kind = "concatThen" -> ConcatThen(s1, job.m)
                   [] job.kind = "concatAdopt" -> ConcatAdopt(s1, job.m)
                   [] job.kind = "concatResolve" ->
                        [s1 EXCEPT
                           !.mt = Append(@, Job("thenDone", "none", job.m))]
                   [] job.kind \in {"concatSkip", "concatReject"} ->
                        [s1 EXCEPT
                           !.mt = Append(@, Job("thenDoneSkip", job.err, job.m))]
                   [] job.kind = "thenDone" -> done(s1, job.m)
                   [] job.kind = "thenDoneSkip" ->
                        [s1 EXCEPT
                           !.mt = Append(@, Job("catchFail", job.err, job.m))]
                   [] OTHER -> fail(s1, job.m, job.err))   \* "catchFail"
    /\ UNCHANGED late

NextIter ==
    \/ \E o \in Observables, v \in Values : Trigger(o, v)
    \/ \E o \in Observables : Done(o)
    \/ \E o \in Observables, e \in Errors : Fail(o, e)
    \/ \E o \in Observables : IterCtor(o)
    \/ IterNext
    \/ RunMicrotask

SpecIter == Init /\ [][NextIter]_vars

\* -------------------------------------------------------- merge's actions
\* Two Observables whose closures the caller keeps.
InitMerge ==
    /\ callbacks = <<EmptyRegistry, EmptyRegistry>>
    /\ origin = <<Root, Root>>
    /\ consumers = <<>>
    /\ iter = NoIter
    /\ pulls = <<>>
    /\ microtasks = <<>>
    /\ outcome = <<Active, Active>>
    /\ trace = << <<>>, <<>> >>
    /\ late = <<>>
    /\ element = <<>>
    /\ escaped = <<>>
    /\ timers = <<>>

Merge(a, b) ==
    /\ a \in Observables /\ b \in Observables
    /\ Cardinality(Observables \ Roots) < MaxObs - 1
    /\ Len(consumers) + 2 <= MaxConsumers
    /\ Commit(merge(St, a, b))
    /\ UNCHANGED late

NextMerge ==
    \/ \E o \in Observables, v \in Values : Trigger(o, v)
    \/ \E o \in Observables : Done(o)
    \/ \E o \in Observables, e \in Errors : Fail(o, e)
    \/ \E a, b \in Observables : Merge(a, b)
    \/ RunMicrotask

SpecMerge == InitMerge /\ [][NextMerge]_vars

\* ------------------------------------------------------------------ skipT
\* The timers that have not run yet; each will make one forEach call.
Armed == {i \in 1..Len(timers) : ~timers[i].fired}

SkipT(o) == o \in Roots /\ Derive(skipT(St, o))

TimerFires(i) ==
    /\ i \in Armed
    /\ timers[i].fires = "skipT"
    /\ Commit(SkipTCallback(St, i))
    /\ UNCHANGED late

NextSkipT ==
    \/ \E o \in Observables, v \in Values : Trigger(o, v)
    \/ \E o \in Observables : Done(o)
    \/ \E o \in Observables, e \in Errors : Fail(o, e)
    \/ \E o \in Observables, t \in ThrowOn :
          Len(consumers) + Cardinality(Armed) < MaxConsumers /\ ForEach(o, t)
    \/ \E o \in Observables : SkipT(o)
    \/ \E i \in 1..Len(timers) : TimerFires(i)
    \/ RunMicrotask

SpecSkipT == Init /\ [][NextSkipT]_vars

\* ------------------------------------------------------------ all and any
AllOf(o, pass) ==
    /\ o \in Observables
    /\ Len(callbacks) < MaxObs
    /\ Len(consumers) + 2 <= MaxConsumers
    /\ Commit(all(St, o, pass))
    /\ UNCHANGED late

AnyOf(o, pass) ==
    /\ o \in Observables
    /\ Len(callbacks) < MaxObs
    /\ Len(consumers) + 2 <= MaxConsumers
    /\ Commit(any(St, o, pass))
    /\ UNCHANGED late

NextQuery ==
    \/ \E o \in Observables, v \in Values : Trigger(o, v)
    \/ \E o \in Observables : Done(o)
    \/ \E o \in Observables, e \in Errors : Fail(o, e)
    \/ \E o \in Observables, p \in Passes : AllOf(o, p)
    \/ \E o \in Observables, p \in Passes : AnyOf(o, p)

SpecQuery == Init /\ [][NextQuery]_vars

\* ---------------------------------------------------------------- flatMap
\* The caller's own forEach calls.
UserCalls == {c \in 1..Len(consumers) : consumers[c].listener = "user"}

FlatMap(o) ==
    /\ o \in Observables
    /\ \A d \in Observables : origin[d].kind # "flatMap"
    /\ Commit(flatMap(St, o))
    /\ UNCHANGED late

\* forEach by the caller on the stream of flatMap, once, with a listener
\* that does not throw.
ForEachUser(o) ==
    /\ o \in Observables /\ origin[o].kind = "flatMap"
    /\ UserCalls = {}
    /\ Commit(forEach(St, o, "user", NoThrow, "none"))
    /\ UNCHANGED late

\* The producers of the outer and the inner streams, while these are Active.
\* An outer value makes an Observable: MaxObs stops the outer producer.
TriggerFlat(o, v) ==
    /\ ~Terminated(o)
    /\ (origin[o].kind = "root") => Len(callbacks) <= MaxObs
    /\ Trigger(o, v)

NextFlatMap ==
    \/ \E o \in Observables, v \in Values : TriggerFlat(o, v)
    \/ \E o \in Observables : ~Terminated(o) /\ Done(o)
    \/ \E o \in Observables, e \in Errors : ~Terminated(o) /\ Fail(o, e)
    \/ \E o \in Observables : FlatMap(o)
    \/ \E o \in Observables : ForEachUser(o)

SpecFlatMap == Init /\ [][NextFlatMap]_vars

\* ------------------------------------------------ re-entrant registration
\* The consumers the caller registers from outside a delivery: with a
\* listener that only logs, or with one that registers a further consumer.
Parents == {c \in 1..Len(consumers) : consumers[c].listener \in
                                          Registering \cup {"user"}}

ForEachRegistering(o, listener) ==
    /\ o \in Roots
    /\ Cardinality(Parents) < MaxConsumers
    /\ Commit(forEach(St, o, listener, NoThrow, "none"))
    /\ UNCHANGED late

NextReentrant ==
    \/ \E o \in Observables, v \in Values : Trigger(o, v)
    \/ \E o \in Observables : Done(o)
    \/ \E o \in Observables, e \in Errors : Fail(o, e)
    \/ \E o \in Observables, l \in Registering \cup {"user"} :
          ForEachRegistering(o, l)

SpecReentrant == Init /\ [][NextReentrant]_vars

\* ------------------------------------------------- re-entrant termination
ForEachTerminating(o, listener) ==
    /\ o \in Roots
    /\ Len(consumers) < MaxConsumers
    /\ Commit(forEach(St, o, listener, NoThrow, "none"))
    /\ UNCHANGED late

NextTerminating ==
    \/ \E o \in Observables, v \in Values : Trigger(o, v)
    \/ \E o \in Observables : Done(o)
    \/ \E o \in Observables, e \in Errors : Fail(o, e)
    \/ \E o \in Observables, l \in Terminating \cup {"user"} :
          ForEachTerminating(o, l)
    \/ \E o \in Observables, t \in ThrowOn : ForEach(o, t)

SpecTerminating == Init /\ [][NextTerminating]_vars

\* -------------------------------------------------------- fromArray, just
\* The program before it has made any Observable.
InitNone ==
    /\ callbacks = <<>>
    /\ origin = <<>>
    /\ consumers = <<>>
    /\ iter = NoIter
    /\ pulls = <<>>
    /\ microtasks = <<>>
    /\ outcome = <<>>
    /\ trace = <<>>
    /\ late = <<>>
    /\ element = <<>>
    /\ escaped = <<>>
    /\ timers = <<>>

\* The arrays handed to fromArray.
RECURSIVE SeqsUpTo(_)
SeqsUpTo(n) ==
    IF n = 0 THEN {<<>>}
    ELSE LET S == SeqsUpTo(n - 1)
         IN S \cup {Append(a, v) : a \in {x \in S : Len(x) = n - 1},
                                   v \in Values}
Arrays == SeqsUpTo(MaxTriggers)

\* The streams the factories made.
Factories == {o \in Observables : origin[o].kind \in {"fromArray", "just"}}

FromArray(array) == Factories = {} /\ Derive(fromArray(St, array))
Just(val) == Factories = {} /\ Derive(just(St, val))
MapOf(o) == o \in Observables /\ Derive(map(St, o))

Collect(o) ==
    /\ o \in Observables
    /\ Len(consumers) + (IF isDone(callbacks, o) THEN 1 ELSE 2) <= MaxConsumers
    /\ Commit(collect(St, o))
    /\ UNCHANGED late

NextFactory ==
    \/ \E array \in Arrays : FromArray(array)
    \/ \E val \in Values : Just(val)
    \/ \E o \in Observables : MapOf(o)
    \/ \E o \in Observables, t \in ThrowOn : ForEach(o, t)
    \/ \E o \in Observables : Collect(o)
    \/ \E o \in Observables : IterCtor(o)
    \/ IterNext
    \/ RunMicrotask

SpecFactory == InitNone /\ [][NextFactory]_vars

\* ----------------------------------------------------------------- concat
Concat(a, b) ==
    /\ a \in Roots /\ b \in Roots
    /\ Cardinality(Observables \ Roots) < MaxObs - 1
    /\ Len(consumers) + 2 <= MaxConsumers
    /\ Commit(concat(St, a, b))
    /\ UNCHANGED late

NextConcat ==
    \/ \E o \in Observables, v \in Values : Trigger(o, v)
    \/ \E o \in Observables : Done(o)
    \/ \E o \in Observables, e \in Errors : Fail(o, e)
    \/ \E a, b \in Observables : Concat(a, b)
    \/ RunMicrotask

SpecConcat == InitMerge /\ [][NextConcat]_vars

\* ------------------------------------------------ streams derived by forEach
\* The predicate sets a caller hands to withConditions, and reduce's seeds.
Conditions == {cs \in SUBSET Passes : Cardinality(cs) <= 2}
Seeds == Values

Map(o) == o \in Roots /\ Derive(map(St, o))
Filter(o, predicate) ==
    o \in Roots /\ Derive(filter(St, o, predicate, NoThrow))
WithConditions(o, conditions) ==
    o \in Roots /\ Derive(withConditions(St, o, conditions, NoThrow))
SkipN(o, n) == o \in Roots /\ Derive(skipN(St, o, n))
Reduce(o, initialValue) == o \in Roots /\ Derive(reduce(St, o, initialValue))

NextForward ==
    \/ \E o \in Observables, v \in Values : Trigger(o, v)
    \/ \E o \in Observables : Done(o)
    \/ \E o \in Observables, e \in Errors : Fail(o, e)
    \/ \E o \in Observables, t \in ThrowOn : ForEach(o, t)
    \/ \E o \in Observables : Map(o)
    \/ \E o \in Observables, p \in Passes : Filter(o, p)
    \/ \E o \in Observables, cs \in Conditions : WithConditions(o, cs)
    \/ \E o \in Observables, n \in FirstNs : SkipN(o, n)
    \/ \E o \in Observables, i \in Seeds : Reduce(o, i)
    \/ RunMicrotask

SpecForward == Init /\ [][NextForward]_vars

\* ------------------------------------- throwing consumers of derived streams
\* One derived stream is built from the first source, or from both, before
\* they deliver; the caller then registers, on the derived stream listeners
\* that may throw, on its source listeners that do not, and only then do the
\* producers trigger and end their streams.  The caller's own forEach calls
\* are counted by themselves.
Build(st) ==
    /\ Observables \ Roots = {}
    /\ consumers = <<>>
    /\ SumLen(RootTraces) = 0
    /\ \A o \in Roots : ~Terminated(o)
    /\ Commit(st)
    /\ UNCHANGED late

ForEachOn(o, throwOn) ==
    /\ o \in Observables
    /\ Observables \ Roots # {}
    /\ (o \in Roots) =>
          /\ throwOn = NoThrow
          /\ \E d \in Observables \ Roots : origin[d].src = o
    /\ SumLen(RootTraces) = 0
    /\ \A r \in Roots : ~Terminated(r)
    /\ Cardinality(UserCalls) < MaxConsumers
    /\ Commit(forEach(St, o, "user", throwOn, "none"))
    /\ UNCHANGED late

NextContain ==
    \/ \E o \in Observables, v \in Values : ~Terminated(o) /\ Trigger(o, v)
    \/ \E o \in Observables : ~Terminated(o) /\ Done(o)
    \/ \E a, b \in Roots : a < b /\ Build(map(St, a))
    \/ \E a, b \in Roots, p \in {Values, {MaxVal}} :
          a < b /\ Build(filter(St, a, p, NoThrow))
    \/ \E a, b \in Roots, cs \in {{Values}, {Values, {MaxVal}}} :
          a < b /\ Build(withConditions(St, a, cs, NoThrow))
    \/ \E a, b \in Roots, n \in {0, 1} : a < b /\ Build(skipN(St, a, n))
    \/ \E a, b \in Roots : a < b /\ Build(reduce(St, a, 0))
    \/ \E a, b \in Roots : a < b /\ Build(concat(St, a, b))
    \/ \E a, b \in Roots : a < b /\ Build(merge(St, a, b))
    \/ \E o \in Observables, t \in ThrowOn : ForEachOn(o, t)
    \/ RunMicrotask

SpecContain == InitMerge /\ [][NextContain]_vars

\* --------------------------------------------------- predicates that throw
\* A stream is built by filter or withConditions with a predicate that
\* throws on one value; the caller registers on it and on its source, then
\* the producer of the source triggers and ends it.
ThrowingPredicate(predicate, throwsOn) ==
    \E o \in Roots : Build(filter(St, o, predicate, throwsOn))

ThrowingCondition(conditions, throwsOn) ==
    \E o \in Roots : Build(withConditions(St, o, conditions, throwsOn))

NextPredicate ==
    \/ \E o \in Observables, v \in Values : ~Terminated(o) /\ Trigger(o, v)
    \/ \E o \in Observables : ~Terminated(o) /\ Done(o)
    \/ \E o \in Observables, e \in Errors : ~Terminated(o) /\ Fail(o, e)
    \/ \E p \in {Values, {MaxVal}}, t \in Values : ThrowingPredicate(p, t)
    \/ \E cs \in {{Values}, {Values, {MaxVal}}}, t \in Values :
          ThrowingCondition(cs, t)
    \/ \E o \in Observables, t \in ThrowOn : ForEachOn(o, t)
    \/ RunMicrotask

SpecPredicate == Init /\ [][NextPredicate]_vars

\* ===================================================================== claims
ConsumerIds == 1..Len(consumers)

IsPrefix(a, b) == Len(a) <= Len(b) /\ SubSeq(b, 1, Len(a)) = a

\* The values o delivered since consumer c registered.
Due(c) ==
    LET p == consumers[c]
    IN SubSeq(trace[p.obs], p.regAt + 1, Len(trace[p.obs]))

\* Consumer c's CallbackItem is still in its Observable's registry.
LiveSlot(c) ==
    LET p == consumers[c]
    IN /\ p.slot # 0
       /\ callbacks[p.obs].defined
       /\ callbacks[p.obs].items[p.slot].kind # "undefined"

UserForEach(c) ==
    consumers[c].kind = "forEach" /\ consumers[c].listener = "user"

\* C1: a forEach listener registered on an Active Observable is invoked with
\* the values triggered after its registration, once each and in trigger
\* order, never with an earlier one; while its result is pending it has had
\* all of them, and its result resolves (at done) only after the last one.
C1_DeliveredSinceRegistration ==
    \A c \in ConsumerIds :
        LET p == consumers[c]
        IN (UserForEach(c) /\ p.regOut = "active") =>
              /\ IsPrefix(p.seen, Due(c))
              /\ (p.state = "pending") => (p.seen = Due(c))
              /\ (p.state = "resolved") =>
                    (p.seen = Due(c) /\ outcome[p.obs].kind = "done")

\* Two consumers, the second registered after the first value, both resolved
\* by done() after two different values.
C1_Witness ==
    \E c, d \in ConsumerIds :
        /\ UserForEach(c) /\ UserForEach(d)
        /\ consumers[c].obs = 1 /\ consumers[d].obs = 1
        /\ consumers[c].regAt = 0 /\ consumers[d].regAt = 1
        /\ consumers[c].state = "resolved" /\ consumers[d].state = "resolved"
        /\ Len(trace[1]) = 2 /\ trace[1][1] # trace[1][2]
        /\ consumers[c].seen = trace[1]
        /\ consumers[d].seen = <<trace[1][2]>>

\* C2: once done() or fail(err) has walked the registry, isDone() is true and
\* stays true, and every later trigger/done/fail call changes nothing: not the
\* registry, not the terminal kind, no listener's log, no consumer's result
\* and not the number of times a result was signalled.
C2_TerminalIsAbsorbing ==
    [][/\ \A o \in 1..Len(outcome') :
             (outcome'[o].kind # "active") => isDone(callbacks', o)
       /\ (late' # late) =>
             UNCHANGED <<callbacks, origin, consumers, iter, pulls,
                         microtasks, outcome, trace, element, escaped,
                         timers>>]_vars

\* A trigger() was dropped after done(), with a consumer that had been resolved
\* after one value.
C2_Witness ==
    /\ late = <<"trigger">>
    /\ outcome[1].kind = "done"
    /\ \E c \in ConsumerIds :
          /\ UserForEach(c) /\ consumers[c].obs = 1
          /\ consumers[c].state = "resolved" /\ consumers[c].calls = 1
          /\ Len(consumers[c].seen) = 1

\* C3: the step in which done() or fail(err) terminates o signals every
\* consumer whose slot is in o's registry exactly once (resolved by done,
\* rejected with exactly err by fail), leaves every other consumer (among them
\* those whose slot a listener failure removed) untouched and makes isDone()
\* true; and no consumer's result is ever signalled more than once.
C3_TerminalSignalsOnce ==
    [][/\ \A o \in Observables :
             (outcome[o].kind = "active" /\ outcome'[o].kind # "active") =>
                /\ isDone(callbacks', o)
                /\ \A c \in ConsumerIds :
                      IF consumers[c].obs = o /\ LiveSlot(c)
                      THEN /\ consumers'[c].calls = consumers[c].calls + 1
                           /\ consumers'[c].state =
                                 IF outcome'[o].kind = "done"
                                 THEN "resolved" ELSE "rejected"
                           /\ (outcome'[o].kind = "failed") =>
                                 (consumers'[c].val = outcome'[o].err)
                      ELSE consumers'[c] = consumers[c]
       /\ \A c \in 1..Len(consumers') : consumers'[c].calls <= 1]_vars

\* fail("e2") reached one consumer and skipped the slot of one that had thrown.
C3_Witness ==
    /\ outcome[1] = [kind |-> "failed", err |-> "e2"]
    /\ \E c, d \in ConsumerIds :
          /\ consumers[c].obs = 1 /\ consumers[d].obs = 1
          /\ consumers[c].state = "rejected" /\ consumers[c].val = Thrown
          /\ consumers[c].calls = 1
          /\ consumers[d].state = "rejected" /\ consumers[d].val = "e2"
          /\ consumers[d].calls = 1

\* Consumer c's listener threw in this step.
ThrewNow(c) ==
    /\ consumers[c].state = "pending"
    /\ consumers'[c].state = "rejected"
    /\ consumers'[c].val = Thrown

\* C4: when a listener throws on value v, that consumer's result is rejected
\* with the thrown value and its slot is removed, and from then on it is
\* invoked and signalled no more; in the same step every other consumer of
\* the Observable keeps its slot, receives v and stays pending, and the
\* Observable stays Active.
C4_ThrowIsLocal ==
    [][/\ \A c \in ConsumerIds :
             ThrewNow(c) =>
                LET o == consumers[c].obs
                IN /\ Len(trace'[o]) = Len(trace[o]) + 1
                   /\ trace'[o][Len(trace'[o])] = consumers[c].throwOn
                   /\ consumers'[c].calls = 1
                   /\ ~isDone(callbacks', o)
                   /\ outcome'[o].kind = "active"
                   /\ callbacks'[o].items[consumers[c].slot] = NoSlot
                   /\ \A d \in ConsumerIds \ {c} :
                         (consumers[d].obs = o /\ LiveSlot(d) /\ ~ThrewNow(d)) =>
                            /\ callbacks'[o].items[consumers[d].slot]
                                  = callbacks[o].items[consumers[d].slot]
                            /\ consumers'[d].state = "pending"
                            /\ UserForEach(d) =>
                                  (consumers'[d].seen =
                                      Append(consumers[d].seen,
                                             consumers[c].throwOn))
       /\ \A c \in ConsumerIds :
             (consumers[c].state = "rejected" /\ consumers[c].val = Thrown) =>
                (consumers'[c] = consumers[c])]_vars

\* A listener threw on the first value; a sibling registered after it got that
\* value and the next one and was resolved by done().
C4_Witness ==
    \E c, d \in ConsumerIds :
        /\ c < d
        /\ UserForEach(c) /\ UserForEach(d)
        /\ consumers[c].obs = 1 /\ consumers[d].obs = 1
        /\ consumers[c].regAt = 0 /\ consumers[d].regAt = 0
        /\ consumers[c].state = "rejected" /\ consumers[c].val = Thrown
        /\ consumers[c].seen = <<consumers[c].throwOn>>
        /\ consumers[d].state = "resolved"
        /\ Len(consumers[d].seen) = 2
        /\ consumers[d].seen = trace[1]

\* C5: the Observable subscribe() derives from an Active source forwards the
\* source's values from then on and, no handle having fired, has the source's
\* own outcome: Active while the source is Active, then its Done or Failed(err).
C5_SubscribeFollowsSource ==
    \A d \in Observables :
        (origin[d].kind = "subscribe" /\ origin[d].srcActive) =>
            LET s == origin[d].src
            IN /\ outcome[d] = outcome[s]
               /\ trace[d] = SubSeq(trace[s], origin[d].at + 1, Len(trace[s]))

\* C6: the slot an unsubscribe handle removes is the derived stream's own:
\* a stream derived by subscribe() from an Active source holds exactly one
\* slot of the source's registry for as long as the source is Active and its
\* handle has not fired.
C6_DerivedHoldsOneSlot ==
    \A d \in Observables :
        LET s == origin[d].src
        IN (origin[d].kind = "subscribe" /\ origin[d].srcActive
               /\ ~isDone(callbacks, s)) =>
              Cardinality({i \in 1..Len(callbacks[s].items) :
                              /\ callbacks[s].items[i].kind = "subscribe"
                              /\ callbacks[s].items[i].d = d}) = 1

\* C7: forEach(listener) or then(action) called on an Observable that has
\* Failed with err returns a result rejected with err, and action is not run.
C7_LateRegistrationReplaysFailure ==
    \A c \in ConsumerIds :
        LET p == consumers[c]
        IN (p.kind \in {"forEach", "then"} /\ p.listener # "iter"
               /\ p.regOut = "failed") =>
              /\ p.state = "rejected"
              /\ p.val = outcome[p.obs].err
              /\ p.runs = 0

\* C8: forEach called on an Observable that is Done returns a result that is
\* already resolved, adds no slot to any registry, and its listener is never
\* invoked, whatever is called later.
C8_ForEachAfterDone ==
    \A c \in ConsumerIds :
        LET p == consumers[c]
        IN (UserForEach(c) /\ p.regOut = "done") =>
              /\ p.state = "resolved" /\ p.val = "undefined" /\ p.calls = 1
              /\ p.seen = <<>>
              /\ \A o \in Observables :
                    \A i \in 1..Len(callbacks[o].items) :
                        callbacks[o].items[i].c # c

\* forEach after done(), and a trigger() after that.
C8_Witness ==
    \E c \in ConsumerIds :
        /\ UserForEach(c) /\ consumers[c].obs = 1
        /\ consumers[c].regOut = "done"
        /\ consumers[c].regAt >= 1
        /\ late = <<"trigger">>

\* C9: for then(action) registered while the Observable is Active, action has
\* not run and the result is pending until the Observable terminates; at done()
\* action runs once and the result resolves with what it returned; at fail(err)
\* the result rejects with err and action never runs, whatever is called later.
C9_ThenRunsOnceAtDone ==
    \A c \in ConsumerIds :
        LET p == consumers[c]
            out == outcome[p.obs]
        IN (p.kind = "then" /\ p.regOut = "active") =>
              /\ (out.kind = "active") =>
                    (p.runs = 0 /\ p.state = "pending" /\ p.calls = 0)
              /\ (out.kind = "done") =>
                    (p.runs = 1 /\ p.state = "resolved" /\ p.val = p.ret
                        /\ p.calls = 1)
              /\ (out.kind = "failed") =>
                    (p.runs = 0 /\ p.state = "rejected" /\ p.val = out.err
                        /\ p.calls = 1)

\* then(action), a value, fail(err), then done().
C9_Witness ==
    \E c \in ConsumerIds :
        /\ consumers[c].kind = "then" /\ consumers[c].obs = 1
        /\ consumers[c].regOut = "active"
        /\ Len(trace[1]) >= 1 /\ consumers[c].regAt = 0
        /\ outcome[1].kind = "failed"
        /\ late = <<"done">>
        /\ consumers[c].runs = 0

PullIds == 1..Len(pulls)

\* The place, in the source's sequence of values, of the value that is due to
\* a next() call that had to wait.
DueAt(p) == pulls[p].trigAt + pulls[p].ahead + 1

\* C10: a next() call that had to wait behind `ahead` earlier waiting calls is
\* resolved by the (ahead+1)-th value the source triggers after it, with that
\* value, as soon as it is triggered: waiting calls are served oldest first,
\* one value each (no two calls are due the same value), and none twice.
C10_PullsServedInOrder ==
    \A p \in PullIds :
        pulls[p].demanded =>
           LET tr == trace[iter.src]
           IN /\ (pulls[p].state = "resolved" /\ pulls[p].kind = "value") =>
                    (DueAt(p) <= Len(tr) /\ pulls[p].v = tr[DueAt(p)])
              /\ (DueAt(p) <= Len(tr)) =>
                    (pulls[p].state = "resolved" /\ pulls[p].kind = "value")
              /\ pulls[p].calls <= 1
              /\ \A q \in PullIds \ {p} :
                    pulls[q].demanded => DueAt(q) # DueAt(p)

\* Two next() calls before any value, then two different values.
C10_Witness ==
    /\ Len(pulls) >= 2
    /\ pulls[1].demanded /\ pulls[2].demanded
    /\ pulls[1].trigAt = 0 /\ pulls[2].trigAt = 0
    /\ pulls[1].state = "resolved" /\ pulls[2].state = "resolved"
    /\ pulls[1].kind = "value" /\ pulls[2].kind = "value"
    /\ pulls[1].v # pulls[2].v
    /\ pulls[1].v = trace[iter.src][1] /\ pulls[2].v = trace[iter.src][2]

\* The values next() calls have returned, in the order of the calls.
RECURSIVE ReturnedUpTo(_, _)
ReturnedUpTo(ps, n) ==
    IF n = 0 THEN <<>>
    ELSE IF ps[n].state = "resolved" /\ ps[n].kind = "value"
    THEN Append(ReturnedUpTo(ps, n - 1), ps[n].v)
    ELSE ReturnedUpTo(ps, n - 1)

\* The values the source delivered since the adapter was constructed.
IterDue(cons, it, tr) ==
    SubSeq(tr[it.src], cons[it.c].regAt + 1, Len(tr[it.src]))

\* C11: the pull adapter loses and reorders nothing, whatever the value (0
\* included): the values returned by next() calls, in call order, followed by
\* the buffered ones, are exactly the values the source triggered since the
\* adapter was built; and a next() call made while a value is buffered
\* returns the oldest buffered value at once.
C11_PullLosesNothing ==
    [][/\ iter'.made =>
             (ReturnedUpTo(pulls', Len(pulls')) \o iter'.queued
                 = IterDue(consumers', iter', trace'))
       /\ (Len(pulls') = Len(pulls) + 1 /\ iter.queued # <<>>) =>
             LET r == pulls'[Len(pulls')]
             IN /\ r.state = "resolved" /\ r.kind = "value"
                /\ r.v = Head(iter.queued)
                /\ iter'.queued = Tail(iter.queued)]_vars

\* The pull r carries the terminal outcome out: the Done marker, or a
\* rejection with the error of the failure.
PullHasOutcome(r, out) ==
    IF out.kind = "done"
    THEN r.state = "resolved" /\ r.kind = "done"
    ELSE r.state = "rejected" /\ r.kind = "err" /\ r.err = out.err

\* C12: once the adapter has processed its source's terminal signal (its
\* `done` field is set), (a) the field records the source's outcome and no
\* pull is pending; (b) the processing step settles every pull that was
\* pending with that outcome; (c) every later next() call made with an empty
\* buffer returns that outcome at once: the Done marker after Done, a
\* rejection with err after Failed(err); (d) the field is never unset.
C12_PullTerminalOutcome ==
    [][LET src == iter'.src
           out == outcome'[src]
       IN (iter'.made /\ iter'.done # "undefined") =>
             /\ out.kind # "active"
             /\ iter'.done = (IF out.kind = "done" THEN "resolved" ELSE "rejected")
             /\ (out.kind = "failed") => (iter'.err = out.err)
             /\ \A p \in 1..Len(pulls') : pulls'[p].state # "pending"
             /\ (iter.done = "undefined") =>
                   \A p \in PullIds :
                       (pulls[p].state = "pending") =>
                           PullHasOutcome(pulls'[p], out)
             /\ (Len(pulls') = Len(pulls) + 1 /\ iter.queued = <<>>) =>
                   PullHasOutcome(pulls'[Len(pulls')], out)]_vars

\* The calls of `call` that ended by throwing.
Escapes(call) == {i \in 1..Len(escaped) : escaped[i].call = call}

\* C13: `new Subscription(executor)` hands back a Subscription whose
\* dispose(), called from outside the executor, has exactly the effect of its
\* done(): every consumer whose slot is registered is resolved once, isDone()
\* becomes true, a later trigger is dropped, and a second dispose() (or one
\* after done() or fail()) changes nothing.
C13_DisposeIsDone ==
    /\ Escapes("new Subscription") = {}
    /\ \A s \in Observables :
          (origin[s].kind \in {"subscription", "fromListener"}) =>
             LET d == dispose(St, s)
             IN /\ d = done(St, s)
                /\ isDone(d.cb, s)
                /\ \A c \in ConsumerIds :
                      IF consumers[c].obs = s /\ LiveSlot(c)
                      THEN /\ d.cons[c].state = "resolved"
                           /\ d.cons[c].calls = consumers[c].calls + 1
                      ELSE d.cons[c] = consumers[c]
                /\ \A v \in Values : trigger(d, s, v) = d
                /\ dispose(d, s) = d

\* C14: Subscription.fromListener hands back a Subscription, and the event
\* source holds exactly one callback of it while it is Active and none once
\* it has terminated (by dispose() or by done()/fail()); the event source
\* holds no other callback.
C14_ListenerHeldWhileActive ==
    /\ Escapes("fromListener") = {}
    /\ \A i \in 1..Len(element) :
          /\ element[i].sub \in Observables
          /\ origin[element[i].sub].kind = "fromListener"
    /\ \A s \in Observables :
          (origin[s].kind = "fromListener") =>
             Cardinality({i \in 1..Len(element) : element[i].sub = s})
                = (IF outcome[s].kind = "active" THEN 1 ELSE 0)

\* The streams a combinator derived from a source that was Active.
DerivedBy(kind) ==
    {d \in Observables : origin[d].kind = kind /\ origin[d].srcActive}

\* The values the source of d delivered since d was derived.
SrcDue(d) ==
    SubSeq(trace[origin[d].src], origin[d].at + 1, Len(trace[origin[d].src]))

\* The timer armed for d has run.
TimerRan(d) == \E i \in 1..Len(timers) : timers[i].d = d /\ timers[i].fired

\* The consumers registered on d while it was Active have d's outcome.
ConsumersFollow(d) ==
    \A c \in ConsumerIds :
        (consumers[c].obs = d /\ consumers[c].regOut = "active"
            /\ consumers[c].val # Thrown) =>
           /\ (outcome[d].kind = "active") => (consumers[c].state = "pending")
           /\ (outcome[d].kind = "done") => (consumers[c].state = "resolved")
           /\ (outcome[d].kind = "failed") =>
                 (consumers[c].state = "rejected"
                     /\ consumers[c].val = outcome[d].err)

\* C15: the stream withTimeout(ms) derives from an Active source is Active
\* exactly while the source is Active and the timer has not run; it is Failed
\* with ERROR_TIMEOUT (and its consumers rejected with it) only when the timer
\* has run, and otherwise has the source's own outcome: Done, or Failed with
\* the source's err.
C15_WithTimeoutOutcome ==
    \A d \in DerivedBy("withTimeout") :
        LET s == origin[d].src
        IN /\ (outcome[d].kind = "active") <=>
                 (outcome[s].kind = "active" /\ ~TimerRan(d))
           /\ (outcome[d].kind = "done") => (outcome[s].kind = "done")
           /\ (outcome[d].kind = "failed") =>
                 \/ outcome[d] = outcome[s]
                 \/ outcome[d].err = ERROR_TIMEOUT /\ TimerRan(d)
           /\ ConsumersFollow(d)

\* Before its timer has run, a stream derived by withTimeout or firstT from
\* an Active source has the source's outcome.
C16_TookSourceOutcome ==
    \A d \in DerivedBy("withTimeout") \cup DerivedBy("firstT") :
        (~TimerRan(d)) => (outcome[d] = outcome[origin[d].src])

\* C16: a stale timer is a no-op: a stream derived by withTimeout(ms) or
\* firstT(ms) whose timer has not run has the outcome of its source, and the
\* step in which the timer runs after the source has terminated changes
\* nothing but the timer: no outcome, no registry, no consumer's result.
C16_StaleTimerIsNoOp ==
    [][/\ C16_TookSourceOutcome'
       /\ \A i \in 1..Len(timers) :
             (~timers[i].fired /\ timers'[i].fired
                 /\ outcome[timers[i].src].kind # "active") =>
                UNCHANGED <<callbacks, origin, consumers, iter, pulls,
                            microtasks, outcome, trace, late>>]_vars

Min(a, b) == IF a <= b THEN a ELSE b

\* C17: firstN(n) with n >= 1, derived from an Active source, has delivered
\* exactly the first n values the source triggered since (all of them while
\* there are fewer than n), is Done as soon as the n-th has been delivered
\* and until then has the source's outcome; with n <= 0 it is Done at once
\* and delivers nothing.
C17_FirstNDeliversN ==
    \A d \in Observables :
        (origin[d].kind = "firstN") =>
           IF origin[d].n <= 0
           THEN outcome[d].kind = "done" /\ trace[d] = <<>>
           ELSE origin[d].srcActive =>
                   /\ trace[d] = SubSeq(SrcDue(d), 1,
                                        Min(origin[d].n, Len(SrcDue(d))))
                   /\ IF Len(SrcDue(d)) >= origin[d].n
                      THEN outcome[d].kind = "done"
                      ELSE outcome[d] = outcome[origin[d].src]
                   /\ ConsumersFollow(d)

\* C18: the stream firstT(ms) derives from an Active source is Active exactly
\* while the source is Active and the timer has not run; it is never Failed
\* unless the source is, with the same err; it is Done only when the source
\* is Done or the timer has run; it forwards the source's values while it is
\* Active and none afterwards.
C18_FirstTOutcome ==
    \A d \in DerivedBy("firstT") :
        LET s == origin[d].src
        IN /\ (outcome[d].kind = "active") <=>
                 (outcome[s].kind = "active" /\ ~TimerRan(d))
           /\ (outcome[d].kind = "failed") => (outcome[d] = outcome[s])
           /\ (outcome[d].kind = "done") =>
                 (outcome[s].kind = "done" \/ TimerRan(d))
           /\ IsPrefix(trace[d], SrcDue(d))
           /\ (outcome[d].kind = "active") => (trace[d] = SrcDue(d))
           /\ ConsumersFollow(d)

\* The longest prefix of seq whose values are all in pass.
RECURSIVE LeadingPass(_, _)
LeadingPass(seq, pass) ==
    IF seq = <<>> \/ Head(seq) \notin pass THEN <<>>
    ELSE <<Head(seq)>> \o LeadingPass(Tail(seq), pass)

\* C19: whileConditions(p1..pk), derived from an Active source, has forwarded
\* exactly the source's values up to, not including, the first one of which
\* some predicate is false; from that value on it is Done; while no value has
\* failed a predicate it has the source's outcome.
C19_WhileConditionsStopsBefore ==
    \A d \in DerivedBy("whileConditions") :
        LET ok == LeadingPass(SrcDue(d), origin[d].pass)
        IN /\ trace[d] = ok
           /\ IF Len(ok) < Len(SrcDue(d))
              THEN outcome[d].kind = "done"
              ELSE outcome[d] = outcome[origin[d].src]
           /\ ConsumersFollow(d)

\* The streams made by Observable.merge, and the sources of m that have failed.
Merged == {m \in Observables : origin[m].kind = "merge"}
FailedOf(m) ==
    {o \in {origin[m].a, origin[m].b} : outcome[o].kind = "failed"}

\* A merged stream is Failed, with the err of a source that failed, whenever
\* one of its sources has failed; otherwise it is not Failed, and it is Done
\* only if both sources are Done.
C20_MergedOutcome ==
    \A m \in Merged :
        IF FailedOf(m) # {}
        THEN /\ outcome[m].kind = "failed"
             /\ outcome[m].err \in {outcome[o].err : o \in FailedOf(m)}
        ELSE /\ outcome[m].kind # "failed"
             /\ (outcome[m].kind = "done") =>
                   /\ outcome[origin[m].a].kind = "done"
                   /\ outcome[origin[m].b].kind = "done"

\* What m forwards of the value v that source o delivers: one copy for each
\* of a and b that is o.
Copies(m, o, v) ==
    (IF origin[m].a = o THEN <<v>> ELSE <<>>)
        \o (IF origin[m].b = o THEN <<v>> ELSE <<>>)

\* C20: Observable.merge(a, b) forwards each value of a and of b in the step
\* in which the source delivers it, hence in arrival order, and forwards
\* nothing else; it is Done only once both a and b are Done; it is
\* Failed(err) as soon as a or b has failed with err, and forwards no value
\* of the other source from then on.
C20_MergeForwardsAndFollows ==
    [][/\ C20_MergedOutcome'
       /\ \A m \in Merged :
             /\ \A o \in Roots :
                   (Len(trace'[o]) = Len(trace[o]) + 1) =>
                      (trace'[m] =
                          IF FailedOf(m) = {}
                          THEN trace[m] \o Copies(m, o, trace'[o][Len(trace'[o])])
                          ELSE trace[m])
             /\ (\A o \in Roots : trace'[o] = trace[o]) =>
                   (trace'[m] = trace[m])]_vars

\* No promise reaction is waiting to run.
Quiet == microtasks = <<>>

\* The consumers that registered on d before d forwarded anything and whose
\* listener does not throw.
EarlyConsumers(d) ==
    {c \in ConsumerIds : /\ consumers[c].obs = d
                         /\ consumers[c].kind = "forEach"
                         /\ consumers[c].regAt = 0
                         /\ consumers[c].throwOn = NoThrow}

\* f applied to each element of seq.
MapSeq(seq) == [i \in 1..Len(seq) |-> mapper(seq[i])]

\* The stream map(f) derives forwards f(v) for each value v of its source,
\* in order, and its early consumers observe exactly these.
C23_MapForwards ==
    \A d \in DerivedBy("map") :
        /\ trace[d] = MapSeq(SrcDue(d))
        /\ \A c \in EarlyConsumers(d) : consumers[c].seen = trace[d]

\* C23: a consumer registered on the stream map(f) derives, before the first
\* value, observes exactly f(v1)..f(vn) in order, and once the reactions have
\* run the derived stream is Done when its source is Done and Failed(err)
\* when its source has failed with err.
C23_MapForwardsAndFollows ==
    /\ C23_MapForwards
    /\ \A d \in DerivedBy("map") :
          Quiet => (outcome[d] = outcome[origin[d].src])

\* seed, then the running accumulation over seq.
RECURSIVE Running(_, _)
Running(acc, seq) ==
    IF seq = <<>> THEN <<acc>>
    ELSE <<acc>> \o Running(reducer(acc, Head(seq)), Tail(seq))

\* The consumers that registered on the stream d of reduce as soon as reduce
\* returned: before any value of the source, and whose listener does not throw.
FirstConsumers(d) ==
    {c \in ConsumerIds : /\ consumers[c].obs = d
                         /\ consumers[c].kind = "forEach"
                         /\ consumers[c].regAt = 1
                         /\ consumers[c].throwOn = NoThrow}

\* Once the reactions have run, d has the outcome of its source, and so have
\* d's consumers.
FollowsSource(d) ==
    Quiet => /\ outcome[d] = outcome[origin[d].src]
             /\ ConsumersFollow(d)

\* The stream of reduce triggers seed, then the running accumulation, and
\* follows its source; a consumer attached once reduce has returned observes
\* what was triggered after seed.
C24_ReduceAfterSeed ==
    \A d \in DerivedBy("reduce") :
        /\ trace[d] = Running(origin[d].seed, SrcDue(d))
        /\ \A c \in FirstConsumers(d) : consumers[c].seen = Tail(trace[d])
        /\ FollowsSource(d)

\* C24: a consumer attached to the stream of reduce(seed, combine) as soon as
\* reduce returns observes seed first, then after each source value the
\* running accumulation, in order, and then the source's Done or Fail.
C24_ReduceFromSeed ==
    \A d \in DerivedBy("reduce") :
        /\ \A c \in FirstConsumers(d) :
              consumers[c].seen = Running(origin[d].seed, SrcDue(d))
        /\ FollowsSource(d)

\* The elements of seq that are in pass, in order.
RECURSIVE Keep(_, _)
Keep(seq, pass) ==
    IF seq = <<>> THEN <<>>
    ELSE (IF Head(seq) \in pass THEN <<Head(seq)>> ELSE <<>>)
            \o Keep(Tail(seq), pass)

\* The values that satisfy every predicate of conditions.
Conjunction(conditions) == {v \in Values : \A c \in conditions : v \in c}

\* The streams a combinator derived, whatever state the source was in.
AllDerivedBy(kind) == {d \in Observables : origin[d].kind = kind}

\* The stream d of filter or withConditions forwards exactly the values of
\* its source that are in pass, in order, and follows its source.
Filters(d, pass) ==
    /\ trace[d] = Keep(SrcDue(d), pass)
    /\ FollowsSource(d)

\* Filters, for the streams derived from a source that was not yet Failed.
C25_FiltersUnlessFailedBefore ==
    /\ \A d \in AllDerivedBy("withConditions") :
          (origin[d].out # "failed") =>
             Filters(d, Conjunction(origin[d].conditions))
    /\ \A d \in AllDerivedBy("filter") :
          (origin[d].out # "failed") => Filters(d, origin[d].pass)

\* C25: withConditions(p1..pk) forwards exactly the source values that
\* satisfy every predicate, in source order, and is Done/Failed(err) exactly
\* when its source is; filter(pred) does the same with the one predicate, so
\* filter(pred) and withConditions(pred) give the same stream.
C25_WithConditionsIsFilter ==
    /\ \A d \in AllDerivedBy("withConditions") :
          Filters(d, Conjunction(origin[d].conditions))
    /\ \A d \in AllDerivedBy("filter") : Filters(d, origin[d].pass)

\* seq without its first n elements (all of seq for n <= 0).
Drop(seq, n) ==
    IF n <= 0 THEN seq
    ELSE IF n >= Len(seq) THEN <<>> ELSE SubSeq(seq, n + 1, Len(seq))

\* The stream d of skipN(n) forwards the values of its source but the first
\* n, in order, and follows its source.
Skips(d) ==
    /\ trace[d] = Drop(SrcDue(d), origin[d].n0)
    /\ FollowsSource(d)

\* Skips, for the streams derived from a source that was not yet Failed.
C27_SkipsUnlessFailedBefore ==
    \A d \in AllDerivedBy("skipN") : (origin[d].out # "failed") => Skips(d)

\* C27: the stream of skipN(n) drops exactly the first n values its source
\* triggers after the derivation and forwards every later one in order (all
\* of them for n <= 0), and is Done/Failed(err) exactly when its source is,
\* also when the source terminates before n values were seen.
C27_SkipNDropsFirstN ==
    \A d \in AllDerivedBy("skipN") : Skips(d)

\* The forEach call the timer of the skipT stream d made (0: not yet).
SkipTCall(d) ==
    IF origin[d].cs = {} THEN 0 ELSE CHOOSE c \in origin[d].cs : TRUE

\* The stream d of skipT forwards nothing until its timer has run and every
\* value of its source from then on; once the timer and the reactions have
\* run it has the outcome of its source, and so have its consumers.
SkipsUntilTimer(d) ==
    LET c == SkipTCall(d)
        s == origin[d].src
    IN IF c = 0
       THEN trace[d] = <<>> /\ outcome[d].kind = "active"
       ELSE /\ trace[d] = SubSeq(trace[s], consumers[c].regAt + 1,
                                 Len(trace[s]))
            /\ FollowsSource(d)

\* SkipsUntilTimer, for the streams whose source had not Failed when the
\* timer ran.
C28_SkipTUnlessFailedBefore ==
    \A d \in AllDerivedBy("skipT") :
        (SkipTCall(d) # 0 => consumers[SkipTCall(d)].regOut # "failed")
            => SkipsUntilTimer(d)

\* C28: the stream of skipT(ms) forwards no source value triggered before
\* the timer fires and every value triggered after it, and takes the
\* source's terminal signal, Done or Failed(err), whether the source
\* terminates before or after the timer fires.
C28_SkipTForwardsAfterTimer ==
    \A d \in AllDerivedBy("skipT") : SkipsUntilTimer(d)

\* The streams a.concat(b) of two different sources.
Concats ==
    {d \in Observables :
        origin[d].kind = "concat" /\ origin[d].src # origin[d].other}

\* The source o delivers a value in this step, and the value.
Grew(o) == Len(trace'[o]) = Len(trace[o]) + 1
Newest(o) == trace'[o][Len(trace'[o])]

\* a.concat(b) forwards each value of a; it is Done once a and b are Done
\* and the reactions have run.
ConcatForwardsA(d) ==
    LET a == origin[d].src
        b == origin[d].other
    IN /\ Grew(a) => (trace'[d] = Append(trace[d], Newest(a)))
       /\ (~Grew(a) /\ ~Grew(b)) => (trace'[d] = trace[d])
       /\ (Quiet' /\ outcome'[a].kind = "done" /\ outcome'[b].kind = "done")
             => (outcome'[d].kind = "done")

\* What a.concat(b) does for a source a that had not Failed before: it
\* forwards a value of b only once the reaction to a's Done has registered
\* on b, and then every one.
C21_ConcatAfterRegistration ==
    [][\A d \in Concats :
          (origin[d].out # "failed") =>
             /\ ConcatForwardsA(d)
             /\ (origin[d].co # 0) => (outcome[origin[d].src].kind = "done")
             /\ Grew(origin[d].other) =>
                   (trace'[d] = IF origin[d].co # 0
                                THEN Append(trace[d], Newest(origin[d].other))
                                ELSE trace[d])]_vars

\* C21: a.concat(b) emits all of a, then after a's Done all of b: it
\* forwards each value of a, then each value b delivers once a is Done,
\* never a value of b before a is Done, and it is Done when b is Done.
C21_ConcatEmitsAThenB ==
    [][\A d \in Concats :
          /\ ConcatForwardsA(d)
          /\ Grew(origin[d].other) =>
                (trace'[d] = IF outcome[origin[d].src].kind = "done"
                             THEN Append(trace[d], Newest(origin[d].other))
                             ELSE trace[d])]_vars

\* The sources of the concat stream d that have failed.
ConcatFailed(d) ==
    {o \in {origin[d].src, origin[d].other} : outcome[o].kind = "failed"}

\* What a.concat(b) does: it is Failed(err) once the reactions have run if a
\* failed with err after the call, or b failed with err after the
\* registration on b.
C22_ConcatFailsWhenListening ==
    \A d \in Concats :
        LET a == origin[d].src
            b == origin[d].other
            co == origin[d].co
        IN /\ (origin[d].out = "active" /\ outcome[a].kind = "failed" /\ Quiet)
                 => (outcome[d] = outcome[a])
           /\ (co # 0 /\ consumers[co].regOut = "active"
                  /\ outcome[b].kind = "failed" /\ Quiet)
                 => (outcome[d] = outcome[b])

\* C22: a.concat(b) fails as soon as either source fails: when a or b has
\* failed with err, the derived stream is never Done, and it is Failed with
\* the err of a source that failed once the reactions have run.
C22_ConcatFailsWithEither ==
    \A d \in Concats :
        (ConcatFailed(d) # {}) =>
           /\ outcome[d].kind # "done"
           /\ Quiet => /\ outcome[d].kind = "failed"
                       /\ outcome[d].err \in
                             {outcome[o].err : o \in ConcatFailed(d)}

\* The promises all() and any() handed back, and the stream of subscribe
\* behind a query q made on an Active source.
Queries == {q \in ConsumerIds : consumers[q].kind \in {"all", "any"}}
QueryStream(q) ==
    CHOOSE d \in Observables : "q" \in DOMAIN origin[d] /\ origin[d].q = q

\* The values the source has delivered since q was made, and whether one of
\* them determines the answer: for all() one that violates pred, for any()
\* one that satisfies it.
Since(q) ==
    SubSeq(trace[consumers[q].obs], consumers[q].regAt + 1,
           Len(trace[consumers[q].obs]))
Determined(q) ==
    \E i \in 1..Len(Since(q)) :
        (Since(q)[i] \in origin[QueryStream(q)].pass)
            <=> (consumers[q].kind = "any")

\* q is resolved with val.
Answered(q, val) ==
    consumers[q].state = "resolved" /\ consumers[q].val = val

\* The stream d behind a query holds a slot on the source o.
HoldsSlot(o, d) ==
    /\ callbacks[o].defined
    /\ \E i \in 1..Len(callbacks[o].items) :
          callbacks[o].items[i].kind = "subscribe" /\ callbacks[o].items[i].d = d

\* C26: all(pred) on an Active source is resolved false once a value has
\* violated pred, true if the source is Done with no such value, and is
\* pending while the source is Active with no such value; any(pred) likewise
\* with true for a satisfying value and false at Done; all() on a source
\* already Done is true; once a value has determined the answer the query
\* holds no slot on the source.
C26_QueryAnswers ==
    \A q \in Queries :
        LET o == consumers[q].obs
            isAll == consumers[q].kind = "all"
        IN IF consumers[q].regOut = "active"
           THEN IF Determined(q)
                THEN /\ Answered(q, IF isAll THEN "false" ELSE "true")
                     /\ ~HoldsSlot(o, QueryStream(q))
                ELSE /\ (outcome[o].kind = "done") =>
                           Answered(q, IF isAll THEN "true" ELSE "false")
                     /\ (outcome[o].kind = "active") =>
                           (consumers[q].state = "pending")
           ELSE (consumers[q].regOut = "done" /\ isAll) => Answered(q, "true")

\* What the code does: every query is answered in the call, all() with true
\* and any() with false, and never holds a slot on the source.
C26_AnsweredInTheCall ==
    \A q \in Queries :
        /\ Answered(q, IF consumers[q].kind = "all" THEN "true" ELSE "false")
        /\ consumers[q].regOut = "active" =>
              ~HoldsSlot(consumers[q].obs, QueryStream(q))

\* The streams the mapper of the flatMap stream d has made.
InnerOf(d) ==
    {i \in Observables : origin[i].kind = "inner" /\ origin[i].by = d}

\* C29: the stream d of flatMap(f) forwards every value an inner stream f(v)
\* delivers, in the step that delivers it, to its consumers, forwards nothing
\* else, and is never done: isDone() stays false whatever the outer and the
\* inner streams do.
C29_FlatMapForwardsNeverDone ==
    [][\A d \in AllDerivedBy("flatMap") :
          /\ \A i \in InnerOf(d) :
                Grew(i) => (trace'[d] = Append(trace[d], Newest(i)))
          /\ (\A i \in InnerOf(d) : ~Grew(i)) => (trace'[d] = trace[d])
          /\ \A c \in EarlyConsumers(d) : consumers'[c].seen = trace'[d]
          /\ ~isDone(callbacks', d)
          /\ outcome'[d].kind = "active"]_vars

\* The outer stream and an inner stream are Done, the inner one has
\* delivered a value, and a consumer of the flatMap stream has received it.
C29_Witness ==
    \E d \in AllDerivedBy("flatMap") :
        /\ origin[d].srcActive
        /\ outcome[origin[d].src].kind = "done"
        /\ \E i \in InnerOf(d) : outcome[i].kind = "done" /\ trace[i] # <<>>
        /\ \E c \in EarlyConsumers(d) : consumers[c].seen # <<>>
        /\ ~isDone(callbacks, d)

\* The consumers and the Observables made in this step.
NewConsumers == (Len(consumers) + 1)..Len(consumers')
NewObservables == (Len(callbacks) + 1)..Len(callbacks')

\* The forEach consumers that hold a slot on o.
SlotsOn(o) ==
    {c \in ConsumerIds : /\ consumers[c].obs = o
                         /\ consumers[c].kind = "forEach"
                         /\ LiveSlot(c)}

\* What the registering listeners of the slots c..Len(consumers) on o make,
\* in slot order: a forEach call, a then call, or the listener that the
\* executor handed to subscribe returns.
RECURSIVE MadeFrom(_, _, _)
MadeFrom(o, c, except) ==
    IF c > Len(consumers) THEN <<>>
    ELSE (IF c \in SlotsOn(o) /\ consumers[c].listener \in Registering \ except
          THEN <<CASE consumers[c].listener = "reForEach" -> "forEach"
                   [] consumers[c].listener = "reThen" -> "then"
                   [] OTHER -> "setup">>
          ELSE <<>>) \o MadeFrom(o, c + 1, except)

\* The delivery of a value by o: every slot that was on o before receives
\* the value once; every consumer registered from inside the delivery has
\* received nothing and is pending, and they were registered in the order of
\* the slots whose listeners registered them.
DeliveryIsolated(o, except) ==
    /\ \A c \in SlotsOn(o) :
          consumers'[c].seen = Append(consumers[c].seen, Newest(o))
    /\ \A c \in NewConsumers :
          /\ consumers'[c].seen = <<>>
          /\ consumers'[c].state = "pending"
          /\ consumers'[c].runs = 0
    /\ [i \in 1..(Len(consumers') - Len(consumers)) |->
           consumers'[Len(consumers) + i].kind] = MadeFrom(o, 1, except)

\* What the code does: DeliveryIsolated, but subscribe called from inside a
\* delivery registers nothing and hands back a stream that is Done.
C30_ReentrantForEachThen ==
    [][\A o \in Roots :
          Grew(o) =>
             /\ DeliveryIsolated(o, {"reSubscribe"})
             /\ \A d \in NewObservables :
                   trace'[d] = <<>> /\ outcome'[d].kind = "done"
             /\ \A d \in AllDerivedBy("subscribe") : trace'[d] = <<>>]_vars

\* C30: a consumer registered by forEach, then or subscribe from a listener
\* that is running inside trigger(v) does not receive v, and receives every
\* value delivered after it; the slots registered before trigger(v) each
\* receive v exactly once, in registration order.
C30_ReentrantRegistration ==
    [][\A o \in Roots :
          Grew(o) =>
             /\ DeliveryIsolated(o, {})
             /\ \A d \in NewObservables :
                   /\ trace'[d] = <<>>
                   /\ outcome'[d].kind = "active"
                   /\ HoldsSlot(o, d)'
             /\ \A d \in AllDerivedBy("subscribe") :
                   (origin[d].src = o) =>
                      (trace'[d] = Append(trace[d], Newest(o)))]_vars

\* The first slot on o whose listener ends o (0: none does).
FirstTerminating(o) ==
    LET T == {c \in SlotsOn(o) : consumers[c].listener \in Terminating}
    IN IF T = {} THEN 0 ELSE CHOOSE c \in T : \A x \in T : c <= x

\* What the code does in a delivery by o: every slot on o is invoked with
\* the value, the ones after a listener that ends o included, although
\* their result has been settled by then.
C31_WalkGoesOn ==
    [][\A o \in Roots :
          Grew(o) =>
             \A c \in SlotsOn(o) :
                /\ consumers'[c].seen = Append(consumers[c].seen, Newest(o))
                /\ (FirstTerminating(o) # 0) =>
                      consumers'[c].state # "pending"]_vars

\* C31: when a listener that is running inside trigger(v) ends the
\* Observable with done() or fail(err), no listener of the Observable is
\* invoked after that: the slots up to the one that ended it have received
\* v, the slots after it, whose result is now settled, have not.
C31_NoDeliveryAfterTerminal ==
    [][\A o \in Roots :
          (Grew(o) /\ FirstTerminating(o) # 0) =>
             \A c \in SlotsOn(o) :
                consumers'[c].seen =
                   IF c <= FirstTerminating(o)
                   THEN Append(consumers[c].seen, Newest(o))
                   ELSE consumers[c].seen]_vars

\* C32: in every state of the pull adapter, whatever the source has
\* triggered, however it ended and whatever next() calls were made, the
\* buffer of values not yet pulled and the queue of pending pulls are not
\* both non-empty.
C32_QueuesNeverBothNonEmpty ==
    iter.made => (iter.queued = <<>> \/ iter.demanded = <<>>)

\* C33: the values fromArray(xs) and just(v) trigger inside the executor
\* are lost: the stream is Done when the factory returns, having triggered
\* its elements to nobody, and no consumer attached to it afterwards - by
\* forEach, collect, map or the pull adapter - observes an element;
\* collect() on it is resolved with the empty array.
C33_FactoryValuesLost ==
    \A o \in Factories :
        /\ isDone(callbacks, o)
        /\ outcome[o].kind = "done"
        /\ trace[o] = origin[o].array
        /\ \A c \in ConsumerIds :
              (consumers[c].obs = o) =>
                 /\ consumers[c].seen = <<>>
                 /\ consumers[c].kind = "forEach" =>
                       consumers[c].state = "resolved"
                 /\ consumers[c].kind = "collect" => Answered(c, "[]")
        /\ \A d \in AllDerivedBy("map") :
              (origin[d].src = o) => (trace[d] = <<>>)
        /\ (iter.made /\ iter.src = o) =>
              /\ iter.queued = <<>>
              /\ \A p \in 1..Len(pulls) : pulls[p].kind # "value"

\* fromArray was given elements; collect() on its stream has been answered,
\* a pull on it has been answered, and a stream was mapped from it.
C33_Witness ==
    \E o \in Factories :
        /\ origin[o].array # <<>>
        /\ \E c \in ConsumerIds :
              consumers[c].obs = o /\ consumers[c].kind = "collect"
                 /\ consumers[c].state = "resolved"
        /\ iter.made /\ iter.src = o
        /\ \E p \in 1..Len(pulls) : pulls[p].state = "resolved"
        /\ \E d \in AllDerivedBy("map") : origin[d].src = o

\* The streams built by a forwarding combinator, and the forEach calls
\* such a stream has made on its sources.
Forwarding ==
    {d \in Observables :
        origin[d].kind \in {"map", "filter", "reduce", "skipN",
                            "withConditions", "concat", "merge"}}
CallsOf(d) ==
    IF origin[d].kind = "merge" THEN {origin[d].ca, origin[d].cb}
    ELSE origin[d].cs

\* The caller's listener c on d throws in this step.
Throws(c, d) ==
    /\ consumers[c].obs = d
    /\ consumers[c].listener = "user"
    /\ consumers[c].state = "pending"
    /\ consumers'[c].state = "rejected" /\ consumers'[c].val = Thrown

\* What d delivers in this step.
Delivered(d) == SubSeq(trace'[d], Len(trace[d]) + 1, Len(trace'[d]))

\* C34: when a listener registered on a stream built by map, filter, reduce,
\* skipN, withConditions, concat or merge throws on a value, only its own
\* result is rejected: the derived stream stays Active, its slots on its
\* sources stay registered and pending, the sources keep their outcome and
\* their own consumers receive the value, and the other consumers of the
\* derived stream receive what it delivers.
C34_ThrowStaysDownstream ==
    [][\A d \in Forwarding : \A c \in ConsumerIds :
          Throws(c, d) =>
             /\ outcome'[d].kind = "active"
             /\ \A k \in CallsOf(d) :
                   LiveSlot(k) =>
                      LiveSlot(k)' /\ consumers'[k].state = "pending"
             /\ \A o \in Roots :
                   /\ outcome'[o] = outcome[o]
                   /\ \A x \in SlotsOn(o) :
                         /\ LiveSlot(x)'
                         /\ consumers'[x].state = consumers[x].state
                         /\ (Grew(o) /\ consumers[x].listener = "user") =>
                               (consumers'[x].seen =
                                   Append(consumers[x].seen, Newest(o)))
             /\ \A x \in SlotsOn(d) \ {c} :
                   /\ consumers'[x].seen = consumers[x].seen \o Delivered(d)
                   /\ (consumers'[x].state = "pending") \/ Throws(x, d)]_vars

\* A listener on a derived stream has thrown; the stream is Active and still
\* registered on its source, and another consumer of it has received a value.
C34_Witness ==
    \E d \in Forwarding : \E c, x \in ConsumerIds :
        /\ c # x
        /\ consumers[c].obs = d /\ consumers[c].val = Thrown
        /\ consumers[x].obs = d /\ consumers[x].seen # <<>>
        /\ consumers[x].state = "pending"
        /\ outcome[d].kind = "active"
        /\ \E k \in CallsOf(d) : LiveSlot(k)

\* ------------------------------------------------- predicates that throw
\* The streams built with a predicate of the caller's, and the one forEach
\* call each of them makes on its source.
Predicated ==
    {d \in Observables : origin[d].kind \in {"filter", "withConditions"}}
CallOf(d) == CHOOSE k \in origin[d].cs : TRUE

\* The predicate of d has thrown: trigger's catch has rejected d's call.
PredicateThrew(d) ==
    /\ consumers[CallOf(d)].state = "rejected"
    /\ consumers[CallOf(d)].val = Thrown

\* The reactions `.then(done).catch(fail)` of d that have yet to run.
ReactionsLeft(d) ==
    {i \in 1..Len(microtasks) :
        /\ microtasks[i].kind \in {"thenDoneSkip", "catchFail"}
        /\ microtasks[i].m = d}

\* The caller's consumers of o.
UsersOf(o) ==
    {c \in ConsumerIds : consumers[c].obs = o /\ consumers[c].listener = "user"}

\* C35: when the predicate given to filter or withConditions throws e on a
\* source value, the derived stream's slot on the source is rejected with e
\* and removed in that step, the value is not forwarded, the source stays
\* Active and its other consumers receive the value and stay registered;
\* and once the two reactions on the rejected promise have run, the derived
\* stream is Failed(e) and every consumer of it is rejected with e.
C35_PredicateThrowFailsDerived ==
    [][\A d \in Predicated :
          /\ (~PredicateThrew(d) /\ PredicateThrew(d)') =>
                LET o == origin[d].src
                IN /\ LiveSlot(CallOf(d)) /\ ~LiveSlot(CallOf(d))'
                   /\ Grew(o) /\ Newest(o) = consumers[CallOf(d)].throwOn
                   /\ trace'[d] = trace[d]
                   /\ outcome[o].kind = "active"
                   /\ outcome'[o].kind = "active"
                   /\ outcome'[d].kind = "active"
                   /\ ReactionsLeft(d)' # {}
                   /\ \A x \in UsersOf(o) :
                         /\ consumers'[x].seen =
                               Append(consumers[x].seen, Newest(o))
                         /\ consumers'[x].state = "pending"
                         /\ LiveSlot(x)'
          /\ (PredicateThrew(d)' /\ ReactionsLeft(d)' = {}) =>
                /\ outcome'[d] = [kind |-> "failed", err |-> Thrown]
                /\ \A x \in UsersOf(d) :
                      /\ consumers'[x].state = "rejected"
                      /\ consumers'[x].val = Thrown
                      /\ ~LiveSlot(x)']_vars

\* The predicate has thrown and the reactions have run: the derived stream
\* is Failed, a consumer of it whose listener never throws is rejected with
\* what the predicate threw, and the source is Active with a consumer that
\* has received the value and is still registered.
C35_Witness ==
    \E d \in Predicated : \E x, y \in ConsumerIds :
        /\ PredicateThrew(d) /\ ReactionsLeft(d) = {}
        /\ outcome[d].kind = "failed"
        /\ x \in UsersOf(d) /\ consumers[x].throwOn = NoThrow
        /\ consumers[x].state = "rejected" /\ consumers[x].val = Thrown
        /\ outcome[origin[d].src].kind = "active"
        /\ y \in UsersOf(origin[d].src)
        /\ consumers[y].seen # <<>> /\ LiveSlot(y)

====
